---- MODULE Spec2Model ----
(***************************************************************************)
(* RX8900 real-time-clock driver (src/src/lib.rs) over a simulated I2C     *)
(* transport.  Every driver function is an operator of the same name that  *)
(* takes the transport and returns [tag, value, i2c]: tag is "Ok", "Err"   *)
(* (the transport's error E, propagated by `?`) or "Panic" (unwrap/todo!). *)
(* The transport holds the device register file, the log of the bus        *)
(* transactions issued on it, and the number of the transaction that       *)
(* fails (0: none).                                                        *)
(***************************************************************************)
EXTENDS Integers, Sequences, FiniteSets, TLC

VARIABLES regs,   \* device register file: register address -> byte
          prev,   \* register file before the last mutating call
          last,   \* the last mutating call: op, args, fail_on, tag, value, log
          seen,   \* the last read-only call since then (same shape, plus before)
          nsets   \* number of mutating calls made

vars == <<regs, prev, last, seen, nsets>>

\* ------------------------------------------------------------------ bounds
\* Mutating driver calls per behaviour (read-only calls are not limited).
MaxSets == 1

\* ------------------------------------------------------------- register map
RX8900_ADDR == 50

CompatibleSEC == 0
CompatibleMIN == 1
CompatibleHOUR == 2
CompatibleWEEK == 3
CompatibleDAY == 4
CompatibleMONTH == 5
CompatibleYEAR == 6
CompatibleRAM == 7
CompatibleMinAlarm == 8
CompatibleHourAlarm == 9
CompatibleWeekDayAlarm == 10
CompatibleTimerCounter0 == 11
CompatibleTimerCounter1 == 12
CompatibleExtensionRegister == 13
CompatibleFlagRegister == 14
CompatibleControlRegister == 15
ExtendedTEMP == 23
ExtendedBackupFunction == 24

\* The registers the driver addresses (the Extended* mirrors are never used).
RegisterTable ==
    { CompatibleSEC, CompatibleMIN, CompatibleHOUR, CompatibleWEEK, CompatibleDAY,
      CompatibleMONTH, CompatibleYEAR, CompatibleRAM, CompatibleMinAlarm,
      CompatibleHourAlarm, CompatibleWeekDayAlarm, CompatibleTimerCounter0,
      CompatibleTimerCounter1, CompatibleExtensionRegister, CompatibleFlagRegister,
      CompatibleControlRegister, ExtendedTEMP, ExtendedBackupFunction }

Byte == 0..255

\* ------------------------------------------------------------ u8 arithmetic
RECURSIVE BitAndN(_, _, _)
BitAndN(x, y, n) ==
    IF n = 0 THEN 0
    ELSE (IF x % 2 = 1 /\ y % 2 = 1 THEN 1 ELSE 0) + 2 * BitAndN(x \div 2, y \div 2, n - 1)

RECURSIVE BitOrN(_, _, _)
BitOrN(x, y, n) ==
    IF n = 0 THEN 0
    ELSE (IF x % 2 = 1 \/ y % 2 = 1 THEN 1 ELSE 0) + 2 * BitOrN(x \div 2, y \div 2, n - 1)

\* x & y, x | y, !x, x << n, x >> n on u8 (a shift drops the bits it pushes out).
BitAnd(x, y) == BitAndN(x, y, 8)
BitOr(x, y) == BitOrN(x, y, 8)
BitNot(x) == 255 - x
Shl(x, n) == (x * (2 ^ n)) % 256
Shr(x, n) == x \div (2 ^ n)
\* `b as u8` for a bool
BoolU8(b) == IF b THEN 1 ELSE 0

\* ---------------------------------------------------------------- transport
\* A simulated transport over the register file, armed to fail its fail_on-th
\* transaction. The bus and the device are shared: others[k], when there is one,
\* holds the registers that another bus agent, or the running device itself,
\* rewrites right after the k-th transaction of the call.
I2c(r, fail_on) == [regs |-> r, log |-> <<>>, fail_on |-> fail_on, others |-> <<>>]

SharedBus(i2c, others) == [i2c EXCEPT !.others = others]

Interleave(i2c) ==
    LET k == Len(i2c.log)
    IN IF k \in DOMAIN i2c.others
       THEN [i2c EXCEPT !.regs = [a \in DOMAIN @ |->
                                      IF a \in DOMAIN i2c.others[k]
                                      THEN i2c.others[k][a] ELSE @[a]]]
       ELSE i2c

Fails(i2c, address) == i2c.fail_on = Len(i2c.log) + 1 \/ address # RX8900_ADDR

\* WriteRead::write_read(address, &[register], &mut data): data starts as [0].
write_read(i2c, address, register) ==
    LET failed == Fails(i2c, address)
        data == IF failed THEN 0 ELSE i2c.regs[register]
        t == [kind |-> "write_read", address |-> address, register |-> register,
              data |-> data, ok |-> ~failed]
    IN [ok |-> ~failed, data |-> data,
        i2c |-> Interleave([i2c EXCEPT !.log = Append(@, t)])]

\* Write::write(address, &[register, data]): a failed write leaves the device as it was.
write(i2c, address, register, data) ==
    LET failed == Fails(i2c, address)
        t == [kind |-> "write", address |-> address, register |-> register,
              data |-> data, ok |-> ~failed]
    IN [ok |-> ~failed,
        i2c |-> Interleave([i2c EXCEPT
                   !.log = Append(@, t),
                   !.regs = IF failed THEN @ ELSE [@ EXCEPT ![register] = data]])]

Ok(v, i2c) == [tag |-> "Ok", value |-> v, i2c |-> i2c]
Err(i2c) == [tag |-> "Err", value |-> "E", i2c |-> i2c]
Panic(i2c) == [tag |-> "Panic", value |-> "panic", i2c |-> i2c]

\* `r?` followed by the rest of the function: an Err (or a panic) of r ends the
\* function with it, otherwise the rest runs on r.
Try(r, rest(_)) == IF r.tag # "Ok" THEN r ELSE rest(r)

\* ----------------------------------------------------------- field accessor
\* Mutant: the register is cleared after it was read.
read_register_clearing(i2c, register) ==
    LET r == write_read(i2c, RX8900_ADDR, register)
        w == write(r.i2c, RX8900_ADDR, register, 0)
    IN IF r.ok THEN Ok(r.data, w.i2c) ELSE Err(r.i2c)

read_register(i2c, register) ==
    LET r == write_read(i2c, RX8900_ADDR, register)
    IN IF r.ok THEN Ok(r.data, r.i2c) ELSE Err(r.i2c)

read_register_1bit(i2c, register, bit) ==
    LET r == read_register(i2c, register)
    IN IF r.tag # "Ok" THEN r
       ELSE Ok(BitAnd(r.value, Shl(1, bit)) = Shl(1, bit), r.i2c)

\* Mutant: a write that failed is tried once more.
write_register_retry(i2c, register, data) ==
    LET r == write(i2c, RX8900_ADDR, register, data)
        again == write(r.i2c, RX8900_ADDR, register, data)
    IN IF r.ok THEN Ok("()", r.i2c)
       ELSE IF again.ok THEN Ok("()", again.i2c) ELSE Err(again.i2c)

write_register(i2c, register, data) ==
    LET r == write(i2c, RX8900_ADDR, register, data)
    IN IF r.ok THEN Ok("()", r.i2c) ELSE Err(r.i2c)

\* Mutant: the new bit is ORed into the byte without clearing the old one.
set_bit_or_only(i2c, register, bit, data) ==
    LET r == read_register(i2c, register)
    IN IF r.tag # "Ok" THEN r
       ELSE write_register(r.i2c, register, BitOr(r.value, Shl(BoolU8(data), bit)))

\* Mutant: the result of the read is not checked, the byte left in the buffer is
\* modified and written.
set_bit_unchecked_read(i2c, register, bit, data) ==
    LET t == write_read(i2c, RX8900_ADDR, register)
        d == BitOr(BitAnd(t.data, BitNot(Shl(1, bit))), Shl(BoolU8(data), bit))
    IN write_register(t.i2c, register, d)

\* Mutant: the byte is built from scratch instead of from the value read.
set_bit_from_scratch(i2c, register, bit, data) ==
    LET r == read_register(i2c, register)
    IN IF r.tag # "Ok" THEN r
       ELSE write_register(r.i2c, register, Shl(BoolU8(data), bit))

set_bit(i2c, register, bit, data) ==
    LET r == read_register(i2c, register)
    IN IF r.tag # "Ok" THEN r
       ELSE LET current == r.value
                d == BitOr(BitAnd(current, BitNot(Shl(1, bit))), Shl(BoolU8(data), bit))
            IN write_register(r.i2c, register, d)

\* ------------------------------------------------------------ domain enums
\* Each enum maps its variants to their discriminants (`data as u8`).
SourceClock ==
    [SourceClock4096Hz |-> 0, SourceClock64Hz |-> 1, SourceClockSecond |-> 2,
     SourceClockMinute |-> 3]
AlarmType == [WeekAlarm |-> 0, DayAlarm |-> 1]
UpdateInterruptType == [EverySecond |-> 0, EveryMinute |-> 1]
FoutFrequency ==
    [FoutFrequency32_768kHz |-> 0, FoutFrequency1024Hz |-> 1, FoutFrequency1Hz |-> 2]
CompensationIntervalType ==
    [CompensationInterval0_5s |-> 0, CompensationInterval2_0s |-> 1,
     CompensationInterval10s |-> 2, CompensationInterval30s |-> 3]

\* ------------------------------------------------- configuration getters
wada(i2c) == read_register_1bit(i2c, CompatibleExtensionRegister, 6)

alarm_type(i2c) ==
    LET r == wada(i2c)
    IN IF r.tag # "Ok" THEN r
       ELSE Ok(IF r.value THEN "DayAlarm" ELSE "WeekAlarm", r.i2c)

usel(i2c) == read_register_1bit(i2c, CompatibleExtensionRegister, 5)

update_interrupt_type(i2c) ==
    LET r == usel(i2c)
    IN IF r.tag # "Ok" THEN r
       ELSE Ok(IF r.value THEN "EveryMinute" ELSE "EverySecond", r.i2c)

fsel(i2c) ==
    LET r == read_register(i2c, CompatibleExtensionRegister)
    IN IF r.tag # "Ok" THEN r ELSE Ok(Shr(BitAnd(r.value, 12), 2), r.i2c)

\* Mutant: the code 0b11 is treated as not assigned.
fout_frequency_strict(i2c) ==
    LET r == fsel(i2c)
    IN IF r.tag # "Ok" THEN r
       ELSE CASE r.value = 0 -> Ok("FoutFrequency32_768kHz", r.i2c)
              [] r.value = 1 -> Ok("FoutFrequency1024Hz", r.i2c)
              [] r.value = 2 -> Ok("FoutFrequency1Hz", r.i2c)
              [] OTHER -> Panic(r.i2c)

fout_frequency(i2c) ==
    LET r == fsel(i2c)
    IN IF r.tag # "Ok" THEN r
       ELSE CASE r.value = 0 -> Ok("FoutFrequency32_768kHz", r.i2c)
              [] r.value = 1 -> Ok("FoutFrequency1024Hz", r.i2c)
              [] r.value = 2 -> Ok("FoutFrequency1Hz", r.i2c)
              [] r.value = 3 -> Ok("FoutFrequency32_768kHz", r.i2c)
              [] OTHER -> Panic(r.i2c)

source_clock(i2c) ==
    LET r == read_register(i2c, CompatibleExtensionRegister)
    IN IF r.tag # "Ok" THEN r
       ELSE LET c == Shr(BitAnd(r.value, 3), 0)
            IN CASE c = 0 -> Ok("SourceClock4096Hz", r.i2c)
                 [] c = 1 -> Ok("SourceClock64Hz", r.i2c)
                 [] c = 2 -> Ok("SourceClockSecond", r.i2c)
                 [] c = 3 -> Ok("SourceClockMinute", r.i2c)
                 [] OTHER -> Panic(r.i2c)

csel(i2c) ==
    LET r == read_register(i2c, CompatibleControlRegister)
    IN IF r.tag # "Ok" THEN r ELSE Ok(Shr(BitAnd(r.value, 192), 6), r.i2c)

bksmp(i2c) ==
    LET r == read_register(i2c, ExtendedBackupFunction)
    IN IF r.tag # "Ok" THEN r ELSE Ok(Shr(BitAnd(r.value, 3), 0), r.i2c)

compensation_interval_type(i2c) ==
    LET r == csel(i2c)
    IN IF r.tag # "Ok" THEN r
       ELSE CASE r.value = 0 -> Ok("CompensationInterval0_5s", r.i2c)
              [] r.value = 1 -> Ok("CompensationInterval2_0s", r.i2c)
              [] r.value = 2 -> Ok("CompensationInterval10s", r.i2c)
              [] r.value = 3 -> Ok("CompensationInterval30s", r.i2c)
              [] OTHER -> Panic(r.i2c)

\* ------------------------------------------------- configuration setters
set_wada(i2c, data) == set_bit(i2c, CompatibleExtensionRegister, 6, data)

set_alarm_type(i2c, data) == set_wada(i2c, data = "DayAlarm")

set_usel(i2c, data) == set_bit(i2c, CompatibleExtensionRegister, 5, data)

set_update_interrupt_type(i2c, data) == set_usel(i2c, data = "EveryMinute")

\* Mutant: the mask also clears the two bits below the field.
set_fsel_wide_mask(i2c, data) ==
    LET r == read_register(i2c, CompatibleExtensionRegister)
    IN IF r.tag # "Ok" THEN r
       ELSE write_register(r.i2c, CompatibleExtensionRegister,
                           BitOr(BitAnd(r.value, 240), Shl(data, 2)))

set_fsel(i2c, data) ==
    LET r == read_register(i2c, CompatibleExtensionRegister)
    IN IF r.tag # "Ok" THEN r
       ELSE LET current == r.value
                d == BitOr(BitAnd(current, 243), Shl(data, 2))
            IN write_register(r.i2c, CompatibleExtensionRegister, d)

set_fout_frequency(i2c, data) == set_fsel(i2c, FoutFrequency[data])

set_source_clock(i2c, data) ==
    LET r == read_register(i2c, CompatibleExtensionRegister)
    IN IF r.tag # "Ok" THEN r
       ELSE LET current == r.value
                d == BitOr(BitAnd(current, 252), Shl(SourceClock[data], 0))
            IN write_register(r.i2c, CompatibleExtensionRegister, d)

set_tsel(i2c, data) ==
    LET r == read_register(i2c, CompatibleExtensionRegister)
    IN IF r.tag # "Ok" THEN r
       ELSE LET current == r.value
                d == BitOr(BitAnd(current, 252), Shl(data, 0))
            IN write_register(r.i2c, CompatibleExtensionRegister, d)

\* Mutant: the field is not cleared before the new code is OR-ed in.
set_csel_no_clear(i2c, data) ==
    LET r == read_register(i2c, CompatibleControlRegister)
    IN IF r.tag # "Ok" THEN r
       ELSE LET current == r.value
                d == BitOr(current, Shl(data, 6))
            IN write_register(r.i2c, CompatibleControlRegister, d)

set_csel(i2c, data) ==
    LET r == read_register(i2c, CompatibleControlRegister)
    IN IF r.tag # "Ok" THEN r
       ELSE LET current == r.value
                d == BitOr(BitAnd(current, 63), Shl(data, 6))
            IN write_register(r.i2c, CompatibleControlRegister, d)

set_compensation_interval_type(i2c, data) == set_csel(i2c, CompensationIntervalType[data])

\* ------------------------------------------------------------------ codecs
\* Mutant: the high nibble is weighted 16 instead of 10.
from_bcd_hex(data) == Shr(data, 4) * 16 + BitAnd(data, 15)

from_bcd(data) == Shr(data, 4) * 10 + BitAnd(data, 15)

\* Mutant: the two digits land in each other's nibble.
to_bcd_swapped(data) == BitOr(Shl(data % 10, 4), data \div 10)

\* Mutant: a value above 99 is clamped to 99 before it is encoded.
to_bcd_clamped(data) ==
    LET n == IF data > 99 THEN 99 ELSE data
    IN BitOr(Shl(n \div 10, 4), n % 10)

to_bcd(data) == BitOr(Shl(data \div 10, 4), data % 10)

\* The outcome of todo!(): the call never returns.
Todo == "todo!()"

\* Mutant: a byte that is no weekday decodes to Sunday.
from_week_default(data) ==
    CASE data = 1 -> "Sun"
      [] data = 2 -> "Mon"
      [] data = 4 -> "Tue"
      [] data = 8 -> "Wed"
      [] data = 16 -> "Thu"
      [] data = 32 -> "Fri"
      [] data = 64 -> "Sat"
      [] OTHER -> "Sun"

from_week(data) ==
    CASE data = 1 -> "Sun"
      [] data = 2 -> "Mon"
      [] data = 4 -> "Tue"
      [] data = 8 -> "Wed"
      [] data = 16 -> "Thu"
      [] data = 32 -> "Fri"
      [] data = 64 -> "Sat"
      [] OTHER -> Todo

\* Mutant: the week starts on Monday at bit 0.
to_week_from_monday(data) ==
    CASE data = "Mon" -> 1
      [] data = "Tue" -> 2
      [] data = "Wed" -> 4
      [] data = "Thu" -> 8
      [] data = "Fri" -> 16
      [] data = "Sat" -> 32
      [] data = "Sun" -> 64

to_week(data) ==
    CASE data = "Sun" -> 1
      [] data = "Mon" -> 2
      [] data = "Tue" -> 4
      [] data = "Wed" -> 8
      [] data = "Thu" -> 16
      [] data = "Fri" -> 32
      [] data = "Sat" -> 64

\* --------------------------------------------------- calendar type (chrono)
\* Option<T>: None is the empty sequence, Some(x) the sequence of x.
None == <<>>
Some(x) == <<x>>
is_none(o) == Len(o) = 0
unwrap(o) == o[1]

IsLeapYear(y) == y % 4 = 0 /\ (y % 100 # 0 \/ y % 400 = 0)

DaysInMonth(y, m) ==
    IF m = 2 THEN (IF IsLeapYear(y) THEN 29 ELSE 28)
    ELSE IF m \in {4, 6, 9, 11} THEN 30 ELSE 31

\* NaiveDate::from_ymd_opt: None unless the date exists in the calendar.
from_ymd_opt(y, m, d) ==
    IF m \in 1..12 /\ d >= 1 /\ d <= DaysInMonth(y, m)
    THEN Some([year |-> y, month |-> m, day |-> d])
    ELSE None

\* NaiveTime::from_hms_opt: None on an hour over 23 or a minute or second over 59.
from_hms_opt(h, m, sc) ==
    IF h <= 23 /\ m <= 59 /\ sc <= 59
    THEN Some([hour |-> h, minute |-> m, second |-> sc, nanosecond |-> 0])
    ELSE None

NaiveDateTime_new(date, time) ==
    [year |-> date.year, month |-> date.month, day |-> date.day,
     hour |-> time.hour, minute |-> time.minute, second |-> time.second,
     nanosecond |-> time.nanosecond]

\* Datelike::weekday of a date of the Gregorian calendar.
weekday(date) ==
    LET t == <<0, 3, 2, 5, 0, 3, 5, 1, 4, 6, 2, 4>>
        y == IF date.month < 3 THEN date.year - 1 ELSE date.year
        n == (y + y \div 4 - y \div 100 + y \div 400 + t[date.month] + date.day) % 7
    IN <<"Sun", "Mon", "Tue", "Wed", "Thu", "Fri", "Sat">>[n + 1]

\* i32 % (the sign of the dividend) and `as u8`.
Rem(a, b) == IF a >= 0 THEN a % b ELSE -((-a) % b)
AsU8(x) == x % 256

\* ------------------------------------------------------------ time getters
sec(i2c) ==
    LET r == read_register(i2c, CompatibleSEC)
    IN IF r.tag # "Ok" THEN r ELSE Ok(from_bcd(BitAnd(r.value, 127)), r.i2c)

min(i2c) ==
    LET r == read_register(i2c, CompatibleMIN)
    IN IF r.tag # "Ok" THEN r ELSE Ok(from_bcd(BitAnd(r.value, 127)), r.i2c)

hour(i2c) ==
    LET r == read_register(i2c, CompatibleHOUR)
    IN IF r.tag # "Ok" THEN r ELSE Ok(from_bcd(BitAnd(r.value, 63)), r.i2c)

week(i2c) ==
    LET r == read_register(i2c, CompatibleWEEK)
    IN IF r.tag # "Ok" THEN r
       ELSE IF from_week(r.value) = Todo THEN Panic(r.i2c)
            ELSE Ok(from_week(r.value), r.i2c)

\* Mutant: the day of the month is taken from the day-of-week register.
day_from_week(i2c) ==
    LET r == read_register(i2c, CompatibleWEEK)
    IN IF r.tag # "Ok" THEN r ELSE Ok(from_bcd(BitAnd(r.value, 63)), r.i2c)

day(i2c) ==
    LET r == read_register(i2c, CompatibleDAY)
    IN IF r.tag # "Ok" THEN r ELSE Ok(from_bcd(BitAnd(r.value, 63)), r.i2c)

month(i2c) ==
    LET r == read_register(i2c, CompatibleMONTH)
    IN IF r.tag # "Ok" THEN r ELSE Ok(from_bcd(BitAnd(r.value, 31)), r.i2c)

year(i2c) ==
    LET r == read_register(i2c, CompatibleYEAR)
    IN IF r.tag # "Ok" THEN r ELSE Ok(from_bcd(r.value), r.i2c)

\* ------------------------------------------------------------ time setters
set_sec(i2c, data) == write_register(i2c, CompatibleSEC, to_bcd(BitAnd(data, 127)))

set_min(i2c, data) == write_register(i2c, CompatibleMIN, to_bcd(BitAnd(data, 127)))

set_hour(i2c, data) == write_register(i2c, CompatibleHOUR, to_bcd(BitAnd(data, 63)))

set_week(i2c, data) == write_register(i2c, CompatibleWEEK, to_week(data))

set_day(i2c, data) == write_register(i2c, CompatibleDAY, to_bcd(BitAnd(data, 63)))

set_month(i2c, data) == write_register(i2c, CompatibleMONTH, to_bcd(BitAnd(data, 31)))

set_year(i2c, data) == write_register(i2c, CompatibleYEAR, to_bcd(BitAnd(data, 255)))

\* ------------------------------------------------------------------ alarms
min_alarm(i2c) ==
    LET r == read_register(i2c, CompatibleMinAlarm)
    IN IF r.tag # "Ok" THEN r ELSE Ok(from_bcd(BitAnd(r.value, 127)), r.i2c)

min_alarm_enabled(i2c) == read_register_1bit(i2c, CompatibleMinAlarm, 7)

hour_alarm(i2c) ==
    LET r == read_register(i2c, CompatibleHourAlarm)
    IN IF r.tag # "Ok" THEN r ELSE Ok(from_bcd(BitAnd(r.value, 63)), r.i2c)

hour_alarm_enabled(i2c) == read_register_1bit(i2c, CompatibleHourAlarm, 7)

\* The loop of week_alarm from bit i on: a set bit pushes its weekday onto the
\* Vec<Weekday, 7>; a push onto a full vector fails and is unwrapped.
RECURSIVE week_alarm_from(_, _, _)
week_alarm_from(data, i, weekdays) ==
    IF i = 7 THEN weekdays
    ELSE LET bit == Shl(1, i)
         IN IF BitAnd(data, bit) # bit THEN week_alarm_from(data, i + 1, weekdays)
            ELSE IF from_week(bit) = Todo \/ weekdays = Todo \/ Len(weekdays) = 7
                 THEN Todo
                 ELSE week_alarm_from(data, i + 1, Append(weekdays, from_week(bit)))

\* Mutant: the loop also visits bit 7.
week_alarm_eight_bits(i2c) ==
    LET r == read_register(i2c, CompatibleWeekDayAlarm)
        weekdays == week_alarm_from(r.value, 0, <<>>)
    IN IF r.tag # "Ok" THEN r
       ELSE IF weekdays = Todo \/ r.value >= 128 THEN Panic(r.i2c)
            ELSE Ok(weekdays, r.i2c)

week_alarm(i2c) ==
    LET r == read_register(i2c, CompatibleWeekDayAlarm)
        weekdays == week_alarm_from(r.value, 0, <<>>)
    IN IF r.tag # "Ok" THEN r
       ELSE IF weekdays = Todo THEN Panic(r.i2c) ELSE Ok(weekdays, r.i2c)

week_alarm_enabled(i2c) == read_register_1bit(i2c, CompatibleWeekDayAlarm, 7)

day_alarm(i2c) ==
    LET r == read_register(i2c, CompatibleWeekDayAlarm)
    IN IF r.tag # "Ok" THEN r ELSE Ok(from_bcd(BitAnd(r.value, 127)), r.i2c)

day_alarm_enabled(i2c) == read_register_1bit(i2c, CompatibleWeekDayAlarm, 7)

set_min_alarm(i2c, data, enabled) ==
    write_register(i2c, CompatibleMinAlarm,
                   BitOr(to_bcd(BitAnd(data, 127)), Shl(BoolU8(enabled), 7)))

\* Mutant: the hour is written in binary.
set_hour_alarm_binary(i2c, data, enabled) ==
    write_register(i2c, CompatibleHourAlarm,
                   BitOr(BitAnd(data, 63), Shl(BoolU8(enabled), 7)))

set_hour_alarm(i2c, data, enabled) ==
    write_register(i2c, CompatibleHourAlarm,
                   BitOr(to_bcd(BitAnd(data, 63)), Shl(BoolU8(enabled), 7)))

\* The loop of set_week_alarm: value |= to_week(day) for each day of the list.
RECURSIVE week_alarm_value(_, _)
week_alarm_value(data, value) ==
    IF data = <<>> THEN value
    ELSE week_alarm_value(Tail(data), BitOr(value, to_week(Head(data))))

\* Mutant: the alarm enable bit of the register is kept.
set_week_alarm_keep_enable(i2c, data) ==
    write_register(i2c, CompatibleWeekDayAlarm,
                   BitOr(week_alarm_value(data, 0), BitAnd(i2c.regs[CompatibleWeekDayAlarm], 128)))

set_week_alarm(i2c, data) ==
    write_register(i2c, CompatibleWeekDayAlarm, week_alarm_value(data, 0))

set_day_alarm(i2c, data, enabled) ==
    write_register(i2c, CompatibleWeekDayAlarm,
                   BitOr(to_bcd(BitAnd(data, 127)), Shl(BoolU8(enabled), 7)))

\* ---------------------------------------------------------- timer counter
\* u16 arithmetic.
U16And(x, y) == BitAndN(x, y, 16)
U16Or(x, y) == BitOrN(x, y, 16)
U16Shl(x, n) == (x * (2 ^ n)) % 65536

\* Mutant: the two bytes are composed high byte first.
timer_counter_swapped(i2c) ==
    Try(read_register(i2c, CompatibleTimerCounter0), LAMBDA r0 :
    Try(read_register(r0.i2c, CompatibleTimerCounter1), LAMBDA r1 :
    Ok(U16Or(U16Shl(r0.value, 8), r1.value), r1.i2c)))

timer_counter(i2c) ==
    Try(read_register(i2c, CompatibleTimerCounter0), LAMBDA r0 :
    Try(read_register(r0.i2c, CompatibleTimerCounter1), LAMBDA r1 :
    Ok(U16Or(U16Shl(r1.value, 8), r0.value), r1.i2c)))

set_timer_counter(i2c, data) ==
    Try(write_register(i2c, CompatibleTimerCounter0, AsU8(U16And(data, 255))), LAMBDA r0 :
    write_register(r0.i2c, CompatibleTimerCounter1,
                   AsU8(Shr(U16And(data, 65280), 8))))

\* -------------------------------------------------------- calendar composer
\* Mutant: the time is unwrapped like the date, without the midnight fallback.
datetime_time_unwrap(i2c) ==
    Try(sec(i2c), LAMBDA r1 :
    Try(min(r1.i2c), LAMBDA r2 :
    Try(hour(r2.i2c), LAMBDA r3 :
    Try(day(r3.i2c), LAMBDA r4 :
    Try(month(r4.i2c), LAMBDA r5 :
    Try(year(r5.i2c), LAMBDA r6 :
    LET date == from_ymd_opt(2000 + r6.value, r5.value, r4.value)
        time == from_hms_opt(r3.value, r2.value, r1.value)
    IN IF is_none(date) \/ is_none(time) THEN Panic(r6.i2c)
       ELSE Ok(NaiveDateTime_new(unwrap(date), unwrap(time)), r6.i2c)))))))

\* Mutant: the registers are read from the year down to the seconds.
datetime_year_first(i2c) ==
    Try(year(i2c), LAMBDA r6 :
    Try(month(r6.i2c), LAMBDA r5 :
    Try(day(r5.i2c), LAMBDA r4 :
    Try(hour(r4.i2c), LAMBDA r3 :
    Try(min(r3.i2c), LAMBDA r2 :
    Try(sec(r2.i2c), LAMBDA r1 :
    LET date == from_ymd_opt(2000 + r6.value, r5.value, r4.value)
        time == from_hms_opt(r3.value, r2.value, r1.value)
    IN IF is_none(date) THEN Panic(r1.i2c)
       ELSE Ok(NaiveDateTime_new(unwrap(date),
                   unwrap(IF is_none(time) THEN from_hms_opt(0, 0, 0) ELSE time)),
               r1.i2c)))))))

\* Mutant: a date that does not exist falls back to 2000-01-01, as the time does.
datetime_date_fallback(i2c) ==
    Try(sec(i2c), LAMBDA r1 :
    Try(min(r1.i2c), LAMBDA r2 :
    Try(hour(r2.i2c), LAMBDA r3 :
    Try(day(r3.i2c), LAMBDA r4 :
    Try(month(r4.i2c), LAMBDA r5 :
    Try(year(r5.i2c), LAMBDA r6 :
    LET date == from_ymd_opt(2000 + r6.value, r5.value, r4.value)
        time == from_hms_opt(r3.value, r2.value, r1.value)
    IN Ok(NaiveDateTime_new(unwrap(IF is_none(date) THEN from_ymd_opt(2000, 1, 1) ELSE date),
                unwrap(IF is_none(time) THEN from_hms_opt(0, 0, 0) ELSE time)),
          r6.i2c)))))))

datetime(i2c) ==
    Try(sec(i2c), LAMBDA r1 :
    Try(min(r1.i2c), LAMBDA r2 :
    Try(hour(r2.i2c), LAMBDA r3 :
    Try(day(r3.i2c), LAMBDA r4 :
    Try(month(r4.i2c), LAMBDA r5 :
    Try(year(r5.i2c), LAMBDA r6 :
    LET date == from_ymd_opt(2000 + r6.value, r5.value, r4.value)
        time == from_hms_opt(r3.value, r2.value, r1.value)
    IN IF is_none(date) THEN Panic(r6.i2c)
       ELSE Ok(NaiveDateTime_new(unwrap(date),
                   unwrap(IF is_none(time) THEN from_hms_opt(0, 0, 0) ELSE time)),
               r6.i2c)))))))

\* Mutant: the result of the weekday write is dropped instead of propagated.
set_datetime_ignore_week(i2c, data) ==
    LET date == [year |-> data.year, month |-> data.month, day |-> data.day] IN
    Try(set_year(i2c, AsU8(Rem(date.year, 100))), LAMBDA r1 :
    Try(set_month(r1.i2c, AsU8(date.month)), LAMBDA r2 :
    Try(set_day(r2.i2c, AsU8(date.day)), LAMBDA r3 :
    LET r4 == set_week(r3.i2c, weekday(date)) IN
    Try(set_hour(r4.i2c, AsU8(data.hour)), LAMBDA r5 :
    Try(set_min(r5.i2c, AsU8(data.minute)), LAMBDA r6 :
    Try(set_sec(r6.i2c, AsU8(data.second)), LAMBDA r7 :
    Ok("()", r7.i2c)))))))

\* Mutant: the registers are written in address order, seconds first.
set_datetime_ascending(i2c, data) ==
    LET date == [year |-> data.year, month |-> data.month, day |-> data.day] IN
    Try(set_sec(i2c, AsU8(data.second)), LAMBDA r1 :
    Try(set_min(r1.i2c, AsU8(data.minute)), LAMBDA r2 :
    Try(set_hour(r2.i2c, AsU8(data.hour)), LAMBDA r3 :
    Try(set_week(r3.i2c, weekday(date)), LAMBDA r4 :
    Try(set_day(r4.i2c, AsU8(date.day)), LAMBDA r5 :
    Try(set_month(r5.i2c, AsU8(date.month)), LAMBDA r6 :
    Try(set_year(r6.i2c, AsU8(Rem(date.year, 100))), LAMBDA r7 :
    Ok("()", r7.i2c))))))))

\* Mutant: the year is cast to a byte without being reduced to two digits.
set_datetime_year_cast(i2c, data) ==
    LET date == [year |-> data.year, month |-> data.month, day |-> data.day] IN
    Try(set_year(i2c, AsU8(date.year)), LAMBDA r1 :
    Try(set_month(r1.i2c, AsU8(date.month)), LAMBDA r2 :
    Try(set_day(r2.i2c, AsU8(date.day)), LAMBDA r3 :
    Try(set_week(r3.i2c, weekday(date)), LAMBDA r4 :
    Try(set_hour(r4.i2c, AsU8(data.hour)), LAMBDA r5 :
    Try(set_min(r5.i2c, AsU8(data.minute)), LAMBDA r6 :
    Try(set_sec(r6.i2c, AsU8(data.second)), LAMBDA r7 :
    Ok("()", r7.i2c))))))))

\* Mutant: the weekday written is Sunday whatever the date.
set_datetime_sunday(i2c, data) ==
    LET date == [year |-> data.year, month |-> data.month, day |-> data.day] IN
    Try(set_year(i2c, AsU8(Rem(date.year, 100))), LAMBDA r1 :
    Try(set_month(r1.i2c, AsU8(date.month)), LAMBDA r2 :
    Try(set_day(r2.i2c, AsU8(date.day)), LAMBDA r3 :
    Try(set_week(r3.i2c, "Sun"), LAMBDA r4 :
    Try(set_hour(r4.i2c, AsU8(data.hour)), LAMBDA r5 :
    Try(set_min(r5.i2c, AsU8(data.minute)), LAMBDA r6 :
    Try(set_sec(r6.i2c, AsU8(data.second)), LAMBDA r7 :
    Ok("()", r7.i2c))))))))

set_datetime(i2c, data) ==
    LET date == [year |-> data.year, month |-> data.month, day |-> data.day] IN
    Try(set_year(i2c, AsU8(Rem(date.year, 100))), LAMBDA r1 :
    Try(set_month(r1.i2c, AsU8(date.month)), LAMBDA r2 :
    Try(set_day(r2.i2c, AsU8(date.day)), LAMBDA r3 :
    Try(set_week(r3.i2c, weekday(date)), LAMBDA r4 :
    Try(set_hour(r4.i2c, AsU8(data.hour)), LAMBDA r5 :
    Try(set_min(r5.i2c, AsU8(data.minute)), LAMBDA r6 :
    Try(set_sec(r6.i2c, AsU8(data.second)), LAMBDA r7 :
    Ok("()", r7.i2c))))))))

\* ----------------------------------------------------- single-bit setters
set_test(i2c, data) == set_bit(i2c, CompatibleExtensionRegister, 7, data)

set_te(i2c, data) == set_bit(i2c, CompatibleExtensionRegister, 4, data)

set_fsel1(i2c, data) == set_bit(i2c, CompatibleExtensionRegister, 3, data)

set_fsel0(i2c, data) == set_bit(i2c, CompatibleExtensionRegister, 2, data)

set_vlf(i2c) == set_bit(i2c, CompatibleFlagRegister, 1, FALSE)

set_vdet(i2c) == set_bit(i2c, CompatibleFlagRegister, 0, FALSE)

set_uie(i2c, data) == set_bit(i2c, CompatibleControlRegister, 5, data)

\* Mutant: the timer interrupt enable is confused with the timer enable.
set_tie_as_te(i2c, data) == set_bit(i2c, CompatibleExtensionRegister, 4, data)

set_tie(i2c, data) == set_bit(i2c, CompatibleControlRegister, 4, data)

set_aie(i2c, data) == set_bit(i2c, CompatibleControlRegister, 3, data)

set_vdetoff(i2c, data) == set_bit(i2c, ExtendedBackupFunction, 3, data)

set_voltage_detector_off(i2c, data) == set_vdetoff(i2c, data)

\* Mutant: SWOFF is written to the VDETOFF bit.
set_swoff_bit3(i2c, data) == set_bit(i2c, ExtendedBackupFunction, 3, data)

set_swoff(i2c, data) == set_bit(i2c, ExtendedBackupFunction, 2, data)

set_switch_off(i2c, data) == set_swoff(i2c, data)

\* ---------------------------------------------------------- initialization
set_bksmp(i2c, data) ==
    LET r == read_register(i2c, ExtendedBackupFunction)
    IN IF r.tag # "Ok" THEN r
       ELSE LET current == r.value
                d == BitOr(BitAnd(current, 252), BitAnd(data, 3))
            IN write_register(r.i2c, ExtendedBackupFunction, d)

\* Mutant: the result of the first step is dropped instead of propagated.
init_no_abort(i2c) ==
    LET r1 == set_te(i2c, FALSE) IN
    Try(set_fsel0(r1.i2c, FALSE), LAMBDA r2 :
    Try(set_fsel1(r2.i2c, FALSE), LAMBDA r3 :
    Try(set_test(r3.i2c, FALSE), LAMBDA r4 :
    Try(set_vdet(r4.i2c), LAMBDA r5 :
    Try(set_vlf(r5.i2c), LAMBDA r6 :
    Try(set_aie(r6.i2c, FALSE), LAMBDA r7 :
    Try(set_tie(r7.i2c, FALSE), LAMBDA r8 :
    Try(set_uie(r8.i2c, FALSE), LAMBDA r9 :
    Try(set_voltage_detector_off(r9.i2c, FALSE), LAMBDA r10 :
    Try(set_switch_off(r10.i2c, TRUE), LAMBDA r11 :
    Ok("()", r11.i2c)))))))))))

init(i2c) ==
    Try(set_te(i2c, FALSE), LAMBDA r1 :
    Try(set_fsel0(r1.i2c, FALSE), LAMBDA r2 :
    Try(set_fsel1(r2.i2c, FALSE), LAMBDA r3 :
    Try(set_test(r3.i2c, FALSE), LAMBDA r4 :
    Try(set_vdet(r4.i2c), LAMBDA r5 :
    Try(set_vlf(r5.i2c), LAMBDA r6 :
    Try(set_aie(r6.i2c, FALSE), LAMBDA r7 :
    Try(set_tie(r7.i2c, FALSE), LAMBDA r8 :
    Try(set_uie(r8.i2c, FALSE), LAMBDA r9 :
    Try(set_voltage_detector_off(r9.i2c, FALSE), LAMBDA r10 :
    Try(set_switch_off(r10.i2c, TRUE), LAMBDA r11 :
    Ok("()", r11.i2c))))))))))))

\* ------------------------------------------------------------------ calls
NoCall == [op |-> "none"]

Call(op, args, fail_on, r) ==
    [op |-> op, args |-> args, fail_on |-> fail_on, tag |-> r.tag, value |-> r.value,
     log |-> r.i2c.log]

\* A mutating driver call and what it left behind.
Mutate(op, args, fail_on, r) ==
    /\ nsets < MaxSets
    /\ regs' = r.i2c.regs
    /\ prev' = regs
    /\ last' = Call(op, args, fail_on, r)
    /\ seen' = NoCall
    /\ nsets' = nsets + 1

\* A call through the read-only interface.
Observe(op, args, fail_on, r) ==
    /\ regs' = r.i2c.regs
    /\ seen' = Call(op, args, fail_on, r) @@ [before |-> regs]
    /\ UNCHANGED <<prev, last, nsets>>

\* The registers the single-bit setters target.
BitRegisters ==
    { CompatibleExtensionRegister, CompatibleFlagRegister, CompatibleControlRegister,
      ExtendedBackupFunction }

\* A register file in which every register holds its own byte, all 256 of them
\* as the seed b varies.
Pattern(b) == [a \in RegisterTable |-> (b + 37 * a) % 256]

\* set_bit is private: it is called here as the single-bit setters call it.
Call_set_bit ==
    \E register \in BitRegisters, bit \in 0..7, data \in BOOLEAN :
        Mutate("set_bit", [register |-> register, bit |-> bit, data |-> data], 0,
               set_bit(I2c(regs, 0), register, bit, data))

Start ==
    /\ prev = regs
    /\ last = NoCall
    /\ seen = NoCall
    /\ nsets = 0

InitBit ==
    /\ \E b \in Byte : regs = Pattern(b)
    /\ Start

\* The single-bit setters on every content of the four configuration registers.
Spec == InitBit /\ [][Call_set_bit]_vars

\* ------------------------------------------- typed configuration fields
Call_set_alarm_type ==
    \E data \in DOMAIN AlarmType, fail_on \in 0..2 :
        Mutate("set_alarm_type", [data |-> data], fail_on,
               set_alarm_type(I2c(regs, fail_on), data))

Call_set_update_interrupt_type ==
    \E data \in DOMAIN UpdateInterruptType, fail_on \in 0..2 :
        Mutate("set_update_interrupt_type", [data |-> data], fail_on,
               set_update_interrupt_type(I2c(regs, fail_on), data))

Call_set_fout_frequency ==
    \E data \in DOMAIN FoutFrequency, fail_on \in 0..2 :
        Mutate("set_fout_frequency", [data |-> data], fail_on,
               set_fout_frequency(I2c(regs, fail_on), data))

Call_set_source_clock ==
    \E data \in DOMAIN SourceClock, fail_on \in 0..2 :
        Mutate("set_source_clock", [data |-> data], fail_on,
               set_source_clock(I2c(regs, fail_on), data))

Call_set_compensation_interval_type ==
    \E data \in DOMAIN CompensationIntervalType, fail_on \in 0..2 :
        Mutate("set_compensation_interval_type", [data |-> data], fail_on,
               set_compensation_interval_type(I2c(regs, fail_on), data))

Call_alarm_type ==
    Observe("alarm_type", <<>>, 0, alarm_type(I2c(regs, 0)))

Call_update_interrupt_type ==
    Observe("update_interrupt_type", <<>>, 0, update_interrupt_type(I2c(regs, 0)))

Call_fout_frequency ==
    Observe("fout_frequency", <<>>, 0, fout_frequency(I2c(regs, 0)))

Call_source_clock ==
    Observe("source_clock", <<>>, 0, source_clock(I2c(regs, 0)))

Call_compensation_interval_type ==
    Observe("compensation_interval_type", <<>>, 0,
            compensation_interval_type(I2c(regs, 0)))

NextEnum ==
    \/ Call_set_alarm_type
    \/ Call_set_update_interrupt_type
    \/ Call_set_fout_frequency
    \/ Call_set_source_clock
    \/ Call_set_compensation_interval_type
    \/ Call_alarm_type
    \/ Call_update_interrupt_type
    \/ Call_fout_frequency
    \/ Call_source_clock
    \/ Call_compensation_interval_type

\* The typed setters and getters on every content of the extension and control
\* registers.
SpecEnum == InitBit /\ [][NextEnum]_vars

\* ------------------------------------------------ raw two-bit field setters
\* set_fsel and set_tsel take a whole byte from the caller.
Call_set_fsel ==
    \E data \in Byte :
        Mutate("set_fsel", [data |-> data], 0, set_fsel(I2c(regs, 0), data))

Call_set_tsel ==
    \E data \in Byte :
        Mutate("set_tsel", [data |-> data], 0, set_tsel(I2c(regs, 0), data))

NextField ==
    \/ Call_set_fsel
    \/ Call_set_tsel

\* The raw field setters with every data byte on every content of the extension
\* register.
SpecField == InitBit /\ [][NextField]_vars

\* ---------------------------------------------------------------- weekday
Weekday == {"Sun", "Mon", "Tue", "Wed", "Thu", "Fri", "Sat"}

Call_set_week ==
    \E data \in Weekday, fail_on \in 0..1 :
        Mutate("set_week", [data |-> data], fail_on, set_week(I2c(regs, fail_on), data))

Call_week ==
    \E fail_on \in 0..1 :
        Observe("week", <<>>, fail_on, week(I2c(regs, fail_on)))

NextWeek ==
    \/ Call_set_week
    \/ Call_week

\* The weekday accessors on every content of the weekday register.
SpecWeek == InitBit /\ [][NextWeek]_vars

\* -------------------------------------------------------------- BCD codec
\* from_bcd and to_bcd are private: they are applied here to every byte, as the
\* time accessors apply them.
Call_from_bcd ==
    \E data \in Byte :
        Observe("from_bcd", [data |-> data], 0, Ok(from_bcd(data), I2c(regs, 0)))

Call_to_bcd ==
    \E data \in Byte :
        Observe("to_bcd", [data |-> data], 0, Ok(to_bcd(data), I2c(regs, 0)))

InitBcd ==
    /\ regs = Pattern(0)
    /\ Start

NextBcd ==
    \/ Call_from_bcd
    \/ Call_to_bcd

SpecBcd == InitBcd /\ [][NextBcd]_vars

\* ---------------------------------------------------------- timer counter
\* The 16-bit values given to set_timer_counter: every low byte under one high
\* byte and every high byte over one low byte.
TimerValues ==
    {256 * 90 + l : l \in Byte} \cup {256 * h + 165 : h \in Byte}

Call_set_timer_counter ==
    \E data \in TimerValues :
        Mutate("set_timer_counter", [data |-> data], 0,
               set_timer_counter(I2c(regs, 0), data))

Call_set_timer_counter_failing ==
    \E data \in {1, 43605}, fail_on \in 1..2 :
        Mutate("set_timer_counter", [data |-> data], fail_on,
               set_timer_counter(I2c(regs, fail_on), data))

Call_timer_counter ==
    Observe("timer_counter", <<>>, 0, timer_counter(I2c(regs, 0)))

InitTimer ==
    /\ regs = Pattern(170)
    /\ Start

NextTimer ==
    \/ Call_set_timer_counter
    \/ Call_set_timer_counter_failing
    \/ Call_timer_counter

SpecTimer == InitTimer /\ [][NextTimer]_vars

\* ------------------------------------- read-modify-write over a failing bus
\* The read (fail_on = 1) or the write (fail_on = 2) of a read-modify-write fails.
Call_set_bit_failing ==
    \E register \in BitRegisters, bit \in 0..7, data \in BOOLEAN, fail_on \in 1..2 :
        Mutate("set_bit", [register |-> register, bit |-> bit, data |-> data], fail_on,
               set_bit(I2c(regs, fail_on), register, bit, data))

Call_set_fsel_failing ==
    \E data \in 0..3, fail_on \in 1..2 :
        Mutate("set_fsel", [data |-> data], fail_on, set_fsel(I2c(regs, fail_on), data))

Call_set_tsel_failing ==
    \E data \in 0..3, fail_on \in 1..2 :
        Mutate("set_tsel", [data |-> data], fail_on, set_tsel(I2c(regs, fail_on), data))

Call_set_csel_failing ==
    \E data \in 0..3, fail_on \in 1..2 :
        Mutate("set_csel", [data |-> data], fail_on, set_csel(I2c(regs, fail_on), data))

Call_set_bksmp_failing ==
    \E data \in 0..3, fail_on \in 1..2 :
        Mutate("set_bksmp", [data |-> data], fail_on, set_bksmp(I2c(regs, fail_on), data))

Call_set_source_clock_failing ==
    \E data \in DOMAIN SourceClock, fail_on \in 1..2 :
        Mutate("set_source_clock", [data |-> data], fail_on,
               set_source_clock(I2c(regs, fail_on), data))

InitRmw ==
    /\ \E b \in {0, 36, 85, 109, 146, 170, 219, 255} : regs = Pattern(b)
    /\ Start

NextRmw ==
    \/ Call_set_bit
    \/ Call_set_bit_failing
    \/ Call_set_fsel_failing
    \/ Call_set_tsel_failing
    \/ Call_set_csel_failing
    \/ Call_set_bksmp_failing
    \/ Call_set_source_clock_failing

SpecRmw == InitRmw /\ [][NextRmw]_vars

\* ------------------------------------------ set_bit on a shared bus
\* Another bus agent inverts one bit of the register set_bit works on, or of the
\* flag register, with a write of its own between set_bit's read and set_bit's
\* write.
Call_set_bit_shared ==
    \E register \in BitRegisters, bit \in 0..7, data \in BOOLEAN :
    \E oreg \in {register, CompatibleFlagRegister}, obit \in 0..7 :
        LET byte == IF (regs[oreg] \div (2 ^ obit)) % 2 = 1
                    THEN regs[oreg] - 2 ^ obit
                    ELSE regs[oreg] + 2 ^ obit
            bus == SharedBus(I2c(regs, 0), <<[a \in {oreg} |-> byte]>>)
        IN Mutate("set_bit",
                  [register |-> register, bit |-> bit, data |-> data,
                   other |-> [register |-> oreg, bit |-> obit, data |-> byte]],
                  0, set_bit(bus, register, bit, data))

InitShared ==
    /\ \E b \in {0, 170} : regs = Pattern(b)
    /\ Start

NextShared ==
    \/ Call_set_bit
    \/ Call_set_bit_shared

SpecShared == InitShared /\ [][NextShared]_vars

\* ---------------------------------------------------------- initialization
Call_init ==
    \E fail_on \in 0..22 :
        Mutate("init", <<>>, fail_on, init(I2c(regs, fail_on)))

\* init on every content of the configuration registers, with every one of its
\* transactions failing in turn.
SpecInit == InitBit /\ [][Call_init]_vars

\* ------------------------------------------------------------------ clock
\* The date-times given to set_datetime: every year of the century, every hour,
\* minute and second, every day of January and the last two days of every month
\* of a leap and a common year, around the date 2001-02-03 04:05:06.
DateTime(y, mo, d, h, mi, sc, ns) ==
    [year |-> y, month |-> mo, day |-> d, hour |-> h, minute |-> mi, second |-> sc,
     nanosecond |-> ns]

DateTimes ==
    {DateTime(y, 2, 3, 4, 5, 6, 0) : y \in 2000..2099}
    \cup {DateTime(2001, 2, 3, h, 5, 6, 0) : h \in 0..23}
    \cup {DateTime(2001, 2, 3, 4, mi, 6, 0) : mi \in 0..59}
    \cup {DateTime(2001, 2, 3, 4, 5, sc, 0) : sc \in 0..59}
    \cup {DateTime(2099, 1, d, 23, 59, 59, 999999999) : d \in 1..31}
    \cup {DateTime(t[1], t[2], t[3], 0, 0, 0, 0) :
              t \in {u \in {2000, 2023} \X (1..12) \X (27..31) :
                         u[3] \in {DaysInMonth(u[1], u[2]) - 1, DaysInMonth(u[1], u[2])}}}

\* The date-times with which a write of set_datetime is made to fail.
FailingDateTimes ==
    {DateTime(2001, 2, 3, 4, 5, 6, 0), DateTime(2024, 12, 31, 23, 59, 58, 500)}

Call_set_datetime ==
    \E data \in DateTimes :
        Mutate("set_datetime", [data |-> data], 0, set_datetime(I2c(regs, 0), data))

Call_set_datetime_failing ==
    \E data \in FailingDateTimes, fail_on \in 1..7 :
        Mutate("set_datetime", [data |-> data], fail_on,
               set_datetime(I2c(regs, fail_on), data))

Call_datetime ==
    Observe("datetime", <<>>, 0, datetime(I2c(regs, 0)))

Call_datetime_failing ==
    \E fail_on \in 1..6 :
        Observe("datetime", <<>>, fail_on, datetime(I2c(regs, fail_on)))

\* Two register files the clock starts from.
InitClock ==
    /\ \E b \in {0, 170} : regs = Pattern(b)
    /\ Start

NextClock ==
    \/ Call_set_datetime
    \/ Call_set_datetime_failing
    \/ Call_datetime

\* Setting the clock and reading it back.
SpecClock == InitClock /\ [][NextClock]_vars

\* Register files holding a date and a time, and one whose time registers are
\* all out of range.
ClockFile(sc, mi, h, w, d, mo, y) ==
    [Pattern(0) EXCEPT ![CompatibleSEC] = sc, ![CompatibleMIN] = mi,
                       ![CompatibleHOUR] = h, ![CompatibleWEEK] = w,
                       ![CompatibleDAY] = d, ![CompatibleMONTH] = mo,
                       ![CompatibleYEAR] = y]

ReadBases ==
    { ClockFile(86, 52, 18, 4, 41, 2, 36),      \* 2024-02-29 12:34:56
      ClockFile(89, 89, 35, 64, 49, 18, 153),   \* 2099-12-31 23:59:59
      ClockFile(127, 122, 63, 0, 1, 1, 0) }     \* 2000-01-01, time out of range

ClockRegisters ==
    { CompatibleSEC, CompatibleMIN, CompatibleHOUR, CompatibleWEEK, CompatibleDAY,
      CompatibleMONTH, CompatibleYEAR }

\* Each clock register in turn holds every byte, the others those of a base.
InitClockRead ==
    /\ \E base \in ReadBases, register \in ClockRegisters, b \in Byte :
           regs = [base EXCEPT ![register] = b]
    /\ Start

\* Reading the clock from arbitrary register contents.
NextClockRead ==
    \/ Call_datetime
    \/ Call_datetime_failing

SpecClockRead == InitClockRead /\ [][NextClockRead]_vars

\* ------------------------------------------------- reading a running clock
\* The register file of a device whose clock shows dt.
ClockFileOf(dt) ==
    ClockFile(to_bcd(dt.second), to_bcd(dt.minute), to_bcd(dt.hour),
              to_week(weekday(dt)), to_bcd(dt.day), to_bcd(dt.month),
              to_bcd(dt.year % 100))

\* The device advances its clock by one second, carrying into the minutes, the
\* hours, the day and weekday, the month and the year.
DeviceTick(file) ==
    LET sc == from_bcd(file[CompatibleSEC])
        mi == from_bcd(file[CompatibleMIN])
        h == from_bcd(file[CompatibleHOUR])
        d == from_bcd(file[CompatibleDAY])
        mo == from_bcd(file[CompatibleMONTH])
        y == from_bcd(file[CompatibleYEAR])
        cmi == sc = 59
        ch == cmi /\ mi = 59
        cd == ch /\ h = 23
        cmo == cd /\ d = DaysInMonth(2000 + y, mo)
        cy == cmo /\ mo = 12
    IN [file EXCEPT
           ![CompatibleSEC] = to_bcd((sc + 1) % 60),
           ![CompatibleMIN] = IF cmi THEN to_bcd((mi + 1) % 60) ELSE @,
           ![CompatibleHOUR] = IF ch THEN to_bcd((h + 1) % 24) ELSE @,
           ![CompatibleWEEK] = IF cd THEN (IF @ = 64 THEN 1 ELSE 2 * @) ELSE @,
           ![CompatibleDAY] = IF cd THEN (IF cmo THEN 1 ELSE to_bcd(d + 1)) ELSE @,
           ![CompatibleMONTH] = IF cmo THEN (IF cy THEN 1 ELSE to_bcd(mo + 1)) ELSE @,
           ![CompatibleYEAR] = IF cy THEN to_bcd((y + 1) % 100) ELSE @]

\* The clocks datetime() is called on: seconds before the next second, minute,
\* hour, day, month and year.
TickTimes ==
    {DateTime(2024, 2, 29, 12, 34, sc, 0) : sc \in {0, 30, 58, 59}}
    \cup {DateTime(2024, 2, 29, h, 59, 59, 0) : h \in {0, 9, 12, 19, 22, 23}}
    \cup {DateTime(2023, mo, DaysInMonth(2023, mo), 23, 59, 59, 0) : mo \in 1..12}
    \cup {DateTime(2024, 2, d, 23, 59, 59, 0) : d \in {9, 19, 28}}
    \cup {DateTime(y, 12, 31, 23, 59, 59, 0) : y \in {2000, 2009, 2099}}

\* datetime() while the device ticks once, right after the tick_after-th read.
\* The tick changes the register file: the ticks are counted with the calls
\* that change it.
Call_datetime_ticking ==
    /\ nsets < MaxSets
    /\ \E tick_after \in 1..5 :
           LET clock == [a \in ClockRegisters |-> DeviceTick(regs)[a]]
               others == [k \in 1..tick_after |-> IF k = tick_after THEN clock ELSE <<>>]
               r == datetime(SharedBus(I2c(regs, 0), others))
           IN /\ regs' = r.i2c.regs
              /\ seen' = Call("datetime", [tick_after |-> tick_after], 0, r)
                             @@ [before |-> regs]
              /\ nsets' = nsets + 1
              /\ UNCHANGED <<prev, last>>

InitTick ==
    /\ \E dt \in TickTimes : regs = ClockFileOf(dt)
    /\ Start

NextTick ==
    \/ Call_datetime
    \/ Call_datetime_ticking

SpecTick == InitTick /\ [][NextTick]_vars

\* ------------------------------------------------- dates of other centuries
\* Date-times of the years before 2000 and after 2099, leap days among them, and
\* a few of 2000..2099.
CenturyDateTimes ==
    {DateTime(y, 2, 3, 4, 5, 6, 0) :
         y \in {0, 1, 99, 100, 1600, 1900, 1970, 1999, 2100, 2101, 2199, 2400, 9999}}
    \cup {DateTime(y, 2, 29, 23, 59, 59, 0) : y \in {4, 1600, 1996, 2104, 2400}}
    \cup {DateTime(y, 12, 31, 0, 0, 0, 5) : y \in {1999, 2100}}
    \cup {DateTime(y, mo, 15, 12, 0, 0, 0) : y \in {2000, 2024, 2099}, mo \in {1, 6, 12}}

Call_set_datetime_century ==
    \E data \in CenturyDateTimes :
        Mutate("set_datetime", [data |-> data], 0, set_datetime(I2c(regs, 0), data))

\* set_week right after a set_datetime that succeeded: one mutating call more
\* than the bound allows elsewhere.
Call_set_week_after_set_datetime ==
    /\ last.op = "set_datetime" /\ last.tag = "Ok"
    /\ \E data \in Weekday :
           LET r == set_week(I2c(regs, 0), data)
           IN /\ regs' = r.i2c.regs
              /\ prev' = regs
              /\ last' = Call("set_week", [data |-> data, after |-> last.args.data], 0, r)
              /\ seen' = NoCall
              /\ nsets' = nsets + 1

NextCentury ==
    \/ Call_set_datetime_century
    \/ Call_set_week_after_set_datetime
    \/ Call_datetime
    \/ Call_week

SpecCentury == InitClock /\ [][NextCentury]_vars

\* ------------------------------------------------- alarm actions and specs
\* Minutes, hours and days of the calendar, and bytes beyond them.
AlarmBytes == {60, 63, 64, 79, 80, 99, 100, 127, 128, 188, 208, 255}

Call_set_min_alarm ==
    \E data \in (0..59) \cup AlarmBytes, enabled \in BOOLEAN :
        Mutate("set_min_alarm", [data |-> data, enabled |-> enabled], 0,
               set_min_alarm(I2c(regs, 0), data, enabled))

Call_set_hour_alarm ==
    \E data \in (0..23) \cup AlarmBytes, enabled \in BOOLEAN :
        Mutate("set_hour_alarm", [data |-> data, enabled |-> enabled], 0,
               set_hour_alarm(I2c(regs, 0), data, enabled))

Call_set_day_alarm ==
    \E data \in (1..31) \cup AlarmBytes, enabled \in BOOLEAN :
        Mutate("set_day_alarm", [data |-> data, enabled |-> enabled], 0,
               set_day_alarm(I2c(regs, 0), data, enabled))

Call_min_alarm == Observe("min_alarm", <<>>, 0, min_alarm(I2c(regs, 0)))

Call_min_alarm_enabled == Observe("min_alarm_enabled", <<>>, 0, min_alarm_enabled(I2c(regs, 0)))

Call_hour_alarm == Observe("hour_alarm", <<>>, 0, hour_alarm(I2c(regs, 0)))

Call_hour_alarm_enabled == Observe("hour_alarm_enabled", <<>>, 0, hour_alarm_enabled(I2c(regs, 0)))

Call_day_alarm == Observe("day_alarm", <<>>, 0, day_alarm(I2c(regs, 0)))

Call_day_alarm_enabled == Observe("day_alarm_enabled", <<>>, 0, day_alarm_enabled(I2c(regs, 0)))

NextAlarm ==
    \/ Call_set_min_alarm
    \/ Call_set_hour_alarm
    \/ Call_set_day_alarm
    \/ Call_min_alarm
    \/ Call_min_alarm_enabled
    \/ Call_hour_alarm
    \/ Call_hour_alarm_enabled
    \/ Call_day_alarm
    \/ Call_day_alarm_enabled

\* The minute, hour and day alarm accessors.
SpecAlarm == InitTimer /\ [][NextAlarm]_vars

\* Vec<Weekday, 7> arguments: the empty list, every list of one weekday, lists
\* of two in and out of order and repeated, and longer lists with and without
\* repetitions.
WeekdayLists ==
    {<<>>} \cup {<<a>> : a \in Weekday}
    \cup {<<"Sun", "Sat">>, <<"Sat", "Sun">>, <<"Mon", "Mon">>, <<"Mon", "Fri">>,
          <<"Thu", "Tue">>,
          <<"Sun", "Mon", "Tue", "Wed", "Thu", "Fri", "Sat">>,
          <<"Sat", "Fri", "Thu", "Wed", "Tue", "Mon", "Sun">>,
          <<"Wed", "Wed", "Wed", "Wed", "Wed", "Wed", "Wed">>,
          <<"Sat", "Sun", "Sat", "Mon", "Sun", "Tue", "Sat">>,
          <<"Fri", "Mon", "Fri", "Wed", "Mon">>}

Call_set_week_alarm ==
    \E data \in WeekdayLists :
        Mutate("set_week_alarm", [data |-> data], 0, set_week_alarm(I2c(regs, 0), data))

Call_week_alarm == Observe("week_alarm", <<>>, 0, week_alarm(I2c(regs, 0)))

Call_week_alarm_enabled == Observe("week_alarm_enabled", <<>>, 0, week_alarm_enabled(I2c(regs, 0)))

NextWeekAlarm ==
    \/ Call_set_week_alarm
    \/ Call_week_alarm
    \/ Call_week_alarm_enabled
    \/ Call_day_alarm_enabled

\* The week alarm accessors on every content of the week/day alarm register.
SpecWeekAlarm == InitBit /\ [][NextWeekAlarm]_vars

\* ------------------------------------------ compensation and backup codes
\* Codes of the two-bit fields and bytes beyond two bits.
CodeBytes == {0, 1, 2, 3, 4, 7, 85, 128, 254, 255}

Call_set_csel ==
    \E data \in CodeBytes :
        Mutate("set_csel", [data |-> data], 0, set_csel(I2c(regs, 0), data))

Call_set_bksmp ==
    \E data \in CodeBytes :
        Mutate("set_bksmp", [data |-> data], 0, set_bksmp(I2c(regs, 0), data))

Call_csel == Observe("csel", <<>>, 0, csel(I2c(regs, 0)))

Call_bksmp == Observe("bksmp", <<>>, 0, bksmp(I2c(regs, 0)))

NextCode ==
    \/ Call_set_csel
    \/ Call_set_bksmp
    \/ Call_csel
    \/ Call_bksmp

\* The raw two-bit accessors on every content of their registers.
SpecCode == InitBit /\ [][NextCode]_vars

\* ------------------------------------------------- the read-only interface
\* The whole-register getters (sec, ram, temp, ...) are read_register of their
\* register, the single-bit getters read_register_1bit of their register and bit.
Call_read_register ==
    \E register \in RegisterTable, fail_on \in 0..1 :
        Observe("read_register", [register |-> register], fail_on,
                read_register(I2c(regs, fail_on), register))

Call_read_register_1bit ==
    \E register \in BitRegisters, bit \in 0..7, fail_on \in 0..1 :
        Observe("read_register_1bit", [register |-> register, bit |-> bit], fail_on,
                read_register_1bit(I2c(regs, fail_on), register, bit))

Call_timer_counter_failing ==
    \E fail_on \in 1..2 :
        Observe("timer_counter", <<>>, fail_on, timer_counter(I2c(regs, fail_on)))

NextGetter ==
    \/ Call_read_register
    \/ Call_read_register_1bit
    \/ Call_alarm_type
    \/ Call_update_interrupt_type
    \/ Call_fout_frequency
    \/ Call_source_clock
    \/ Call_compensation_interval_type
    \/ Call_week
    \/ Call_min_alarm
    \/ Call_min_alarm_enabled
    \/ Call_hour_alarm
    \/ Call_hour_alarm_enabled
    \/ Call_week_alarm
    \/ Call_week_alarm_enabled
    \/ Call_day_alarm
    \/ Call_day_alarm_enabled
    \/ Call_csel
    \/ Call_bksmp
    \/ Call_timer_counter
    \/ Call_timer_counter_failing
    \/ Call_datetime
    \/ Call_datetime_failing

\* The getters on every content of every register.
SpecGetter == InitBit /\ [][NextGetter]_vars

\* --------------------------------------------- operations of every length
\* Operations of one, two, six, seven and twenty-two transactions, with each of
\* their transactions failing in turn.
NextBudget ==
    \/ Call_set_week
    \/ Call_week
    \/ Call_set_bit
    \/ Call_set_bit_failing
    \/ Call_set_source_clock
    \/ Call_set_fsel_failing
    \/ Call_set_tsel_failing
    \/ Call_set_csel_failing
    \/ Call_set_bksmp_failing
    \/ Call_timer_counter
    \/ Call_set_timer_counter_failing
    \/ Call_datetime
    \/ Call_datetime_failing
    \/ Call_set_datetime_failing
    \/ Call_init

SpecBudget == InitTimer /\ [][NextBudget]_vars

\* ================================================================== claims
Bit(x, i) == (x \div (2 ^ i)) % 2

\* The registers other than those in S hold what they held before the last
\* mutating call.
OthersUnchanged(S) == \A r \in RegisterTable \ S : regs[r] = prev[r]

\* C1: after set_bit(register, bit, v) succeeds, reading that bit returns v,
\* the other seven bits of the register are as before the call, and every
\* other register is unchanged.
C1_SetBitFrame ==
    (last.op = "set_bit" /\ last.tag = "Ok") =>
        LET a == last.args
            back == read_register_1bit(I2c(regs, 0), a.register, a.bit)
        IN /\ back.tag = "Ok" /\ back.value = a.data
           /\ \A i \in (0..7) \ {a.bit} :
                  Bit(regs[a.register], i) = Bit(prev[a.register], i)
           /\ OthersUnchanged({a.register})

\* A bit that was 0 is set in a register whose other bits are mixed.
C1_Witness ==
    /\ last.op = "set_bit" /\ last.tag = "Ok"
    /\ last.args.data = TRUE
    /\ last.args.register = CompatibleFlagRegister
    /\ Bit(prev[last.args.register], last.args.bit) = 0
    /\ prev[last.args.register] \notin {0, 2 ^ last.args.bit}
    /\ regs[last.args.register] = prev[last.args.register] + 2 ^ last.args.bit

\* The typed setters: the register, the bits of the field, the matching getter.
TypedField ==
    [set_alarm_type |->
        [register |-> CompatibleExtensionRegister, bits |-> {6}, getter |-> "alarm_type"],
     set_update_interrupt_type |->
        [register |-> CompatibleExtensionRegister, bits |-> {5},
         getter |-> "update_interrupt_type"],
     set_fout_frequency |->
        [register |-> CompatibleExtensionRegister, bits |-> {2, 3},
         getter |-> "fout_frequency"],
     set_source_clock |->
        [register |-> CompatibleExtensionRegister, bits |-> {0, 1},
         getter |-> "source_clock"],
     set_compensation_interval_type |->
        [register |-> CompatibleControlRegister, bits |-> {6, 7},
         getter |-> "compensation_interval_type"]]

\* C10: after a typed configuration setter succeeds only the bits of its field
\* differ from the prior byte (bit 6, bit 5, bits 3..2, bits 1..0 of the
\* extension register, bits 7..6 of the control register), no other register
\* changes, and the matching getter returns the variant that was set.
C10_TypedSetterFrame ==
    (last.op \in DOMAIN TypedField /\ last.tag = "Ok") =>
        LET f == TypedField[last.op]
        IN /\ \A i \in (0..7) \ f.bits :
                  Bit(regs[f.register], i) = Bit(prev[f.register], i)
           /\ OthersUnchanged({f.register})
           /\ (seen.op = f.getter /\ seen.fail_on = 0) =>
                  (seen.tag = "Ok" /\ seen.value = last.args.data)

\* The fout field held 0b01 among mixed bits, 1 Hz was set and read back.
C10_Witness ==
    /\ last.op = "set_fout_frequency" /\ last.tag = "Ok"
    /\ last.args.data = "FoutFrequency1Hz"
    /\ Bit(prev[CompatibleExtensionRegister], 2) = 1
    /\ Bit(prev[CompatibleExtensionRegister], 3) = 0
    /\ Bit(prev[CompatibleExtensionRegister], 0) = 1
    /\ Bit(prev[CompatibleExtensionRegister], 7) = 1
    /\ seen.op = "fout_frequency" /\ seen.tag = "Ok"
    /\ seen.value = "FoutFrequency1Hz"

\* The eleven bit steps of init in order: timer enable, the two fout frequency
\* select bits, the test bit, the voltage-detect and voltage-low flags, the
\* alarm, timer and update interrupt enables, VDETOFF, SWOFF.
InitSteps ==
    << [register |-> CompatibleExtensionRegister, bit |-> 4, v |-> 0],
       [register |-> CompatibleExtensionRegister, bit |-> 2, v |-> 0],
       [register |-> CompatibleExtensionRegister, bit |-> 3, v |-> 0],
       [register |-> CompatibleExtensionRegister, bit |-> 7, v |-> 0],
       [register |-> CompatibleFlagRegister, bit |-> 0, v |-> 0],
       [register |-> CompatibleFlagRegister, bit |-> 1, v |-> 0],
       [register |-> CompatibleControlRegister, bit |-> 3, v |-> 0],
       [register |-> CompatibleControlRegister, bit |-> 4, v |-> 0],
       [register |-> CompatibleControlRegister, bit |-> 5, v |-> 0],
       [register |-> ExtendedBackupFunction, bit |-> 3, v |-> 0],
       [register |-> ExtendedBackupFunction, bit |-> 2, v |-> 1] >>

\* The byte x with bit i made v.
WithBit(x, i, v) == x - Bit(x, i) * 2 ^ i + v * 2 ^ i

\* C5: when the n-th bus transaction of init fails (1 <= n <= 22), init returns
\* the error, exactly n transactions were issued (the n-th the failed one), the
\* bits of the (n-1) div 2 completed steps hold their new values and every
\* other bit of every register is as before.
C5_InitAbort ==
    (last.op = "init" /\ last.fail_on \in 1..22) =>
        LET n == last.fail_on
            done == (n - 1) \div 2
        IN /\ last.tag = "Err" /\ last.value = "E"
           /\ Len(last.log) = n
           /\ \A k \in 1..n : last.log[k].ok = (k < n)
           /\ \A r \in RegisterTable, i \in 0..7 :
                  Bit(regs[r], i) =
                      IF \E k \in 1..done :
                             InitSteps[k].register = r /\ InitSteps[k].bit = i
                      THEN InitSteps[CHOOSE k \in 1..done :
                                InitSteps[k].register = r /\ InitSteps[k].bit = i].v
                      ELSE Bit(prev[r], i)

\* The write of the sixth step fails: five steps are done, the flag register
\* has lost VDET and still holds VLF.
C5_Witness ==
    /\ last.op = "init" /\ last.fail_on = 12 /\ last.tag = "Err"
    /\ Bit(prev[CompatibleFlagRegister], 0) = 1
    /\ Bit(prev[CompatibleFlagRegister], 1) = 1
    /\ Bit(regs[CompatibleFlagRegister], 0) = 0
    /\ Bit(regs[CompatibleFlagRegister], 1) = 1
    /\ Bit(prev[CompatibleExtensionRegister], 4) = 1
    /\ Bit(regs[CompatibleExtensionRegister], 4) = 0

\* The bits of byte x at the positions in S.
Bits(x, S) == [i \in S |-> Bit(x, i)]

Truncated(dt) == [dt EXCEPT !.nanosecond = 0]

\* C2: for a date-time dt with year in 2000..2099, set_datetime(dt) followed by
\* datetime() on the unchanged register file returns dt truncated to seconds.
C2_DatetimeRoundTrip ==
    (/\ last.op = "set_datetime" /\ last.tag = "Ok"
     /\ last.args.data.year \in 2000..2099
     /\ seen.op = "datetime" /\ seen.fail_on = 0) =>
        (seen.tag = "Ok" /\ seen.value = Truncated(last.args.data))

\* The last second of the century, with a fraction, is set and read back.
C2_Witness ==
    /\ last.op = "set_datetime" /\ last.tag = "Ok"
    /\ last.args.data = DateTime(2099, 1, 31, 23, 59, 59, 999999999)
    /\ seen.op = "datetime" /\ seen.tag = "Ok"
    /\ seen.value = DateTime(2099, 1, 31, 23, 59, 59, 0)

\* The value a clock register decodes to: its low bits as two decimal digits.
Decoded(file, register) ==
    LET width == CASE register \in {CompatibleSEC, CompatibleMIN} -> 128
                   [] register \in {CompatibleHOUR, CompatibleDAY} -> 64
                   [] register = CompatibleMONTH -> 32
                   [] register = CompatibleYEAR -> 256
        x == file[register] % width
    IN 10 * (x \div 16) + (x % 16)

DecodedDateValid(file) ==
    ~is_none(from_ymd_opt(2000 + Decoded(file, CompatibleYEAR),
                          Decoded(file, CompatibleMONTH), Decoded(file, CompatibleDAY)))

\* C3: when the day, month and year registers decode to a calendar date,
\* datetime() returns that date, with the decoded time if hour <= 23, minute <= 59
\* and second <= 59 and with 00:00:00 otherwise.
C3_MidnightFallback ==
    (seen.op = "datetime" /\ seen.fail_on = 0 /\ DecodedDateValid(seen.before)) =>
        LET h == Decoded(seen.before, CompatibleHOUR)
            mi == Decoded(seen.before, CompatibleMIN)
            sc == Decoded(seen.before, CompatibleSEC)
            bad == h > 23 \/ mi > 59 \/ sc > 59
        IN /\ seen.tag = "Ok"
           /\ seen.value =
                  DateTime(2000 + Decoded(seen.before, CompatibleYEAR),
                           Decoded(seen.before, CompatibleMONTH),
                           Decoded(seen.before, CompatibleDAY),
                           IF bad THEN 0 ELSE h, IF bad THEN 0 ELSE mi,
                           IF bad THEN 0 ELSE sc, 0)

\* Only the hour is out of range: minute 34 and second 56 are dropped too.
C3_Witness ==
    /\ seen.op = "datetime" /\ seen.tag = "Ok"
    /\ Decoded(seen.before, CompatibleHOUR) = 24
    /\ Decoded(seen.before, CompatibleMIN) = 34
    /\ Decoded(seen.before, CompatibleSEC) = 56
    /\ seen.value = DateTime(2024, 2, 29, 0, 0, 0, 0)

\* The registers set_datetime writes, in order.
DatetimeWriteOrder ==
    << CompatibleYEAR, CompatibleMONTH, CompatibleDAY, CompatibleWEEK, CompatibleHOUR,
       CompatibleMIN, CompatibleSEC >>

\* n in 0..99 as two decimal digits.
Bcd(n) == 16 * (n \div 10) + (n % 10)

\* The bytes set_datetime(dt) is to store, in the same order.
NewValues(dt) ==
    << Bcd(dt.year % 100), Bcd(dt.month), Bcd(dt.day),
       to_week(weekday([year |-> dt.year, month |-> dt.month, day |-> dt.day])),
       Bcd(dt.hour), Bcd(dt.minute), Bcd(dt.second) >>

\* C4: when the k-th write of set_datetime fails (1 <= k <= 7), set_datetime
\* returns the failure, the first k-1 registers of the order year, month, day,
\* weekday, hour, minute, second hold the new values, the others what they held,
\* and the failed write is the last transaction.
C4_SetDatetimeNoRollback ==
    (last.op = "set_datetime" /\ last.fail_on \in 1..7) =>
        LET k == last.fail_on
        IN /\ last.tag = "Err" /\ last.value = "E"
           /\ Len(last.log) = k
           /\ \A j \in 1..k : last.log[j].ok = (j < k)
           /\ \A j \in 1..7 :
                  regs[DatetimeWriteOrder[j]] =
                      IF j < k THEN NewValues(last.args.data)[j]
                      ELSE prev[DatetimeWriteOrder[j]]
           /\ OthersUnchanged(ClockRegisters)

\* The weekday write fails: year, month and day are new, the weekday and the
\* time are old.
C4_Witness ==
    /\ last.op = "set_datetime" /\ last.fail_on = 4 /\ last.tag = "Err"
    /\ last.args.data = DateTime(2001, 2, 3, 4, 5, 6, 0)
    /\ regs[CompatibleYEAR] = 1 /\ prev[CompatibleYEAR] # 1
    /\ regs[CompatibleDAY] = 3 /\ prev[CompatibleDAY] # 3
    /\ regs[CompatibleWEEK] = prev[CompatibleWEEK] /\ prev[CompatibleWEEK] # 64
    /\ regs[CompatibleHOUR] = prev[CompatibleHOUR] /\ prev[CompatibleHOUR] # 4

\* C8: a successful set_datetime issues exactly seven transactions, all writes,
\* to the registers 0x06, 0x05, 0x04, 0x03, 0x02, 0x01, 0x00 in that order.
C8_SetDatetimeOrder ==
    (last.op = "set_datetime" /\ last.tag = "Ok") =>
        /\ Len(last.log) = 7
        /\ \A j \in 1..7 :
               /\ last.log[j].kind = "write" /\ last.log[j].ok
               /\ last.log[j].address = 50
               /\ last.log[j].register = 7 - j

\* A successful set_datetime whose first write carries the year and whose
\* last the seconds.
C8_Witness ==
    /\ last.op = "set_datetime" /\ last.tag = "Ok"
    /\ last.args.data = DateTime(2042, 2, 3, 4, 5, 6, 0)
    /\ last.log[1].data = 66 /\ last.log[7].data = 6
    /\ regs[CompatibleYEAR] = 66

\* The registers datetime() reads, in order.
DatetimeReadOrder ==
    << CompatibleSEC, CompatibleMIN, CompatibleHOUR, CompatibleDAY, CompatibleMONTH,
       CompatibleYEAR >>

\* Weekday register contents, one-hot and not.
WeekdayBytes == {0, 1, 3, 64, 128, 255}

\* C9: datetime() issues reads only, to the second, minute, hour, day, month and
\* year registers in that order (all six unless a read fails, which ends the
\* call), never reads the weekday register, writes nothing, and returns the same
\* result whatever the weekday register holds.
C9_DatetimeReads ==
    (seen.op = "datetime") =>
        /\ Len(seen.log) = (IF seen.fail_on = 0 THEN 6 ELSE seen.fail_on)
        /\ \A j \in 1..Len(seen.log) :
               /\ seen.log[j].kind = "write_read"
               /\ seen.log[j].register = DatetimeReadOrder[j]
               /\ seen.log[j].ok = (j # seen.fail_on)
        /\ regs = seen.before
        /\ \A w \in WeekdayBytes :
               LET r == datetime(I2c([seen.before EXCEPT ![CompatibleWEEK] = w],
                                     seen.fail_on))
               IN r.tag = seen.tag /\ r.value = seen.value

\* All six reads are made and a date-time returned while the weekday register
\* holds a byte that is no weekday.
C9_Witness ==
    /\ seen.op = "datetime" /\ seen.tag = "Ok" /\ Len(seen.log) = 6
    /\ seen.before[CompatibleWEEK] = 255
    /\ seen.value = DateTime(2099, 12, 31, 23, 59, 59, 0)

\* The raw field setters and the bits of the extension register they own.
RawField == [set_fsel |-> {2, 3}, set_tsel |-> {0, 1}]

\* C11: for every data byte and every prior register byte, set_fsel(data)
\* changes no bit of the extension register other than bits 3..2 and
\* set_tsel(data) changes no bit of it other than bits 1..0.
C11_RawFieldFrame ==
    (last.op \in DOMAIN RawField /\ last.tag = "Ok") =>
        \A i \in (0..7) \ RawField[last.op] :
            Bit(regs[CompatibleExtensionRegister], i)
                = Bit(prev[CompatibleExtensionRegister], i)

\* The two-bit code in bits 3..2 of a byte.
FselCode(b) == (b \div 4) % 4

\* C12: for every extension-register byte fout_frequency() returns 32.768 kHz
\* for the codes 0b00 and 0b11 in bits 3..2, 1024 Hz for 0b01 and 1 Hz for 0b10;
\* set_fout_frequency(32.768 kHz) leaves bits 3..2 equal to 0b00, also when they
\* held 0b11, and the variant decoded from the register is then the same as
\* before the call.
C12_FoutFrequencyCodes ==
    /\ (seen.op = "fout_frequency" /\ seen.fail_on = 0) =>
           LET code == FselCode(seen.before[CompatibleExtensionRegister])
           IN /\ seen.tag = "Ok"
              /\ seen.value = CASE code \in {0, 3} -> "FoutFrequency32_768kHz"
                                 [] code = 1 -> "FoutFrequency1024Hz"
                                 [] code = 2 -> "FoutFrequency1Hz"
    /\ (/\ last.op = "set_fout_frequency" /\ last.tag = "Ok"
        /\ last.args.data = "FoutFrequency32_768kHz") =>
           /\ FselCode(regs[CompatibleExtensionRegister]) = 0
           /\ fout_frequency(I2c(prev, 0)).tag = "Ok"
           /\ FselCode(prev[CompatibleExtensionRegister]) = 3 =>
                  fout_frequency(I2c(prev, 0)).value = "FoutFrequency32_768kHz"

\* The field held 0b11, 32.768 kHz was set, the field holds 0b00 and still reads
\* as 32.768 kHz.
C12_Witness ==
    /\ last.op = "set_fout_frequency" /\ last.tag = "Ok"
    /\ last.args.data = "FoutFrequency32_768kHz"
    /\ FselCode(prev[CompatibleExtensionRegister]) = 3
    /\ FselCode(regs[CompatibleExtensionRegister]) = 0
    /\ seen.op = "fout_frequency" /\ seen.tag = "Ok"
    /\ seen.value = "FoutFrequency32_768kHz"

\* The weekdays in the order of their bits, Sunday at bit 0.
WeekdayOrder == <<"Sun", "Mon", "Tue", "Wed", "Thu", "Fri", "Sat">>

\* C13: week() returns a weekday only if the weekday register holds one of the
\* seven one-hot values 0x01..0x40 (Sunday..Saturday in bit order); for every
\* other byte (zero, more than one bit among bits 0..6, or bit 7 set) it reaches
\* a fatal condition and returns neither a day nor a default.
C13_WeekDecode ==
    (seen.op = "week" /\ seen.fail_on = 0) =>
        LET b == seen.before[CompatibleWEEK]
        IN IF \E i \in 0..6 : b = 2 ^ i
           THEN /\ seen.tag = "Ok"
                /\ \A i \in 0..6 : b = 2 ^ i => seen.value = WeekdayOrder[i + 1]
           ELSE seen.tag = "Panic"

\* week() was called on a weekday register with bit 7 set and did not return.
C13_Witness ==
    /\ seen.op = "week" /\ seen.fail_on = 0
    /\ seen.before[CompatibleWEEK] = 128
    /\ seen.tag = "Panic"

\* C14: for each of the seven weekdays w, from_week(to_week(w)) = w, to_week(w)
\* has exactly one bit set among bits 0..6 with bit i meaning Sunday+i, and
\* set_week(w) followed by week() returns w.
C14_WeekRoundTrip ==
    (last.op = "set_week" /\ last.tag = "Ok") =>
        LET w == last.args.data
        IN /\ from_week(to_week(w)) = w
           /\ \E i \in 0..6 : to_week(w) = 2 ^ i /\ WeekdayOrder[i + 1] = w
           /\ regs[CompatibleWEEK] = to_week(w)
           /\ (seen.op = "week" /\ seen.fail_on = 0) =>
                  (seen.tag = "Ok" /\ seen.value = w)

\* Thursday was set over a byte that was no weekday and read back.
C14_Witness ==
    /\ last.op = "set_week" /\ last.tag = "Ok"
    /\ last.args.data = "Thu"
    /\ prev[CompatibleWEEK] = 255
    /\ regs[CompatibleWEEK] = 16
    /\ seen.op = "week" /\ seen.tag = "Ok" /\ seen.value = "Thu"

\* C15: for every n in 0..99, from_bcd(to_bcd(n)) = n and to_bcd(n) has both
\* nibbles in 0..9.
C15_BcdRoundTrip ==
    (seen.op = "to_bcd" /\ seen.args.data \in 0..99) =>
        /\ seen.tag = "Ok"
        /\ from_bcd(seen.value) = seen.args.data
        /\ seen.value \div 16 \in 0..9
        /\ seen.value % 16 \in 0..9

\* 59 was encoded as 0x59.
C15_Witness ==
    /\ seen.op = "to_bcd" /\ seen.args.data = 59
    /\ seen.value = 89

\* C16: the BCD codec is total over all 256 bytes and never faults: from_bcd(b)
\* is 10 * (b >> 4) + (b & 0xF), at most 165, so it never overflows a byte, also
\* for nibbles 10..15; to_bcd(n) is (((n / 10) << 4) mod 256) | (n mod 10) for
\* every n in 0..255; neither direction checks a range.
C16_BcdTotal ==
    /\ seen.op = "from_bcd" =>
           LET b == seen.args.data
           IN /\ seen.tag = "Ok"
              /\ seen.value = 10 * (b \div 16) + (b % 16)
              /\ 10 * (b \div 16) <= 150
              /\ seen.value <= 165
    /\ seen.op = "to_bcd" =>
           LET n == seen.args.data
           IN /\ seen.tag = "Ok"
              /\ seen.value \in Byte
              /\ seen.value \div 16 = (n \div 10) % 16
              /\ seen.value % 16 = n % 10

\* 255 was encoded: the tens 25 lose their high bit, the byte is 0x95.
C16_Witness ==
    /\ seen.op = "to_bcd" /\ seen.args.data = 255
    /\ seen.value = 149

\* C17: timer_counter() returns 256 * (byte at 0x0C) + (byte at 0x0B);
\* set_timer_counter(v) writes v mod 256 to 0x0B and then v div 256 to 0x0C; for
\* every 16-bit v, set_timer_counter(v) followed by timer_counter() returns v.
C17_TimerCounter ==
    /\ (seen.op = "timer_counter" /\ seen.fail_on = 0) =>
           /\ seen.tag = "Ok"
           /\ seen.value = 256 * seen.before[12] + seen.before[11]
    /\ (last.op = "set_timer_counter" /\ last.tag = "Ok") =>
           LET v == last.args.data
           IN /\ Len(last.log) = 2
              /\ \A k \in 1..2 : last.log[k].kind = "write" /\ last.log[k].ok
              /\ last.log[1].register = 11 /\ last.log[1].data = v % 256
              /\ last.log[2].register = 12 /\ last.log[2].data = v \div 256
              /\ regs[11] = v % 256 /\ regs[12] = v \div 256
              /\ OthersUnchanged({11, 12})
              /\ (seen.op = "timer_counter" /\ seen.fail_on = 0) =>
                     (seen.tag = "Ok" /\ seen.value = v)

\* 0x80A5 was set over two other bytes and read back.
C17_Witness ==
    /\ last.op = "set_timer_counter" /\ last.tag = "Ok"
    /\ last.args.data = 32933
    /\ prev[11] # 165 /\ prev[12] # 128
    /\ regs[11] = 165 /\ regs[12] = 128
    /\ seen.op = "timer_counter" /\ seen.tag = "Ok" /\ seen.value = 32933

\* set_bit and the setters of the two-bit fields.
RmwOps == {"set_bit", "set_fsel", "set_tsel", "set_csel", "set_bksmp", "set_source_clock"}

\* C18: for set_bit and every two-bit read-modify-write setter, when the read
\* fails the operation returns the transport's error, issues no write and the
\* register file is unchanged; when the read succeeds and the write fails it
\* returns that write's error and the register file is unchanged.
C18_RmwErrors ==
    /\ (last.op \in RmwOps /\ last.fail_on = 1) =>
           /\ last.tag = "Err" /\ last.value = "E"
           /\ Len(last.log) = 1
           /\ last.log[1].kind = "write_read" /\ ~last.log[1].ok
           /\ regs = prev
    /\ (last.op \in RmwOps /\ last.fail_on = 2) =>
           /\ last.tag = "Err" /\ last.value = "E"
           /\ Len(last.log) = 2
           /\ last.log[1].kind = "write_read" /\ last.log[1].ok
           /\ last.log[2].kind = "write" /\ ~last.log[2].ok
           /\ last.log[2].register = last.log[1].register
           /\ regs = prev

\* The write of a set_bit that would have changed its register failed.
C18_Witness ==
    /\ last.op = "set_bit" /\ last.fail_on = 2 /\ last.tag = "Err"
    /\ Len(last.log) = 2
    /\ last.log[2].data # prev[last.args.register]
    /\ regs = prev

\* C19: set_bit is not atomic. The byte it writes has every bit other than the
\* target equal to the value it read; so when another bus agent changes a
\* different bit of the same register between the read and the write, that
\* change is overwritten (the update is lost); when no agent interleaves, no
\* other bit is changed.
C19_SetBitNotAtomic ==
    (last.op = "set_bit" /\ last.tag = "Ok") =>
        LET a == last.args
            read == last.log[1]
            written == last.log[2]
        IN /\ read.kind = "write_read" /\ written.kind = "write"
           /\ Bit(written.data, a.bit) = BoolU8(a.data)
           /\ \A i \in (0..7) \ {a.bit} : Bit(written.data, i) = Bit(read.data, i)
           /\ regs[a.register] = written.data
           /\ (/\ "other" \in DOMAIN a
               /\ a.other.register = a.register /\ a.other.bit # a.bit) =>
                  /\ Bit(a.other.data, a.other.bit) # Bit(prev[a.register], a.other.bit)
                  /\ Bit(regs[a.register], a.other.bit)
                         = Bit(prev[a.register], a.other.bit)
           /\ "other" \notin DOMAIN a =>
                  /\ \A i \in (0..7) \ {a.bit} :
                         Bit(regs[a.register], i) = Bit(prev[a.register], i)
                  /\ OthersUnchanged({a.register})

\* Another agent set bit 5 of the control register while set_bit was setting its
\* bit 3: bit 3 is set and bit 5 is clear again.
C19_Witness ==
    /\ last.op = "set_bit" /\ last.tag = "Ok"
    /\ "other" \in DOMAIN last.args
    /\ last.args.register = CompatibleControlRegister
    /\ last.args.bit = 3 /\ last.args.data = TRUE
    /\ last.args.other.register = CompatibleControlRegister
    /\ last.args.other.bit = 5
    /\ Bit(prev[CompatibleControlRegister], 5) = 0
    /\ Bit(last.args.other.data, 5) = 1
    /\ Bit(regs[CompatibleControlRegister], 5) = 0
    /\ Bit(regs[CompatibleControlRegister], 3) = 1

\* The register file the i-th read of a datetime() call saw, the device having
\* ticked after the read tick_after.
ReadOf(i) == IF i <= seen.args.tick_after THEN seen.before ELSE regs

\* C20: datetime() takes no snapshot across its six reads. Each field comes from
\* the registers as they were at its own read, so when the device advances
\* between two reads the result joins fields of the earlier and of the later
\* instant (seconds read as 59 before a rollover with minutes read after it), a
\* date-time the registers held at no single instant; a joined date that is on
\* no calendar ends the call in a panic.
C20_DatetimeNoSnapshot ==
    (seen.op = "datetime" /\ "tick_after" \in DOMAIN seen.args) =>
        LET y == 2000 + Decoded(ReadOf(6), CompatibleYEAR)
            mo == Decoded(ReadOf(5), CompatibleMONTH)
            d == Decoded(ReadOf(4), CompatibleDAY)
        IN IF is_none(from_ymd_opt(y, mo, d))
           THEN seen.tag = "Panic"
           ELSE /\ seen.tag = "Ok"
                /\ seen.value = DateTime(y, mo, d, Decoded(ReadOf(3), CompatibleHOUR),
                                         Decoded(ReadOf(2), CompatibleMIN),
                                         Decoded(ReadOf(1), CompatibleSEC), 0)

\* The clock went from 12:34:59 to 12:35:00 after the seconds were read:
\* datetime() returned 12:35:59, which the registers never held.
C20_Witness ==
    /\ seen.op = "datetime" /\ "tick_after" \in DOMAIN seen.args
    /\ seen.args.tick_after = 1
    /\ seen.before = ClockFileOf(DateTime(2024, 2, 29, 12, 34, 59, 0))
    /\ regs = ClockFileOf(DateTime(2024, 2, 29, 12, 35, 0, 0))
    /\ seen.tag = "Ok"
    /\ seen.value = DateTime(2024, 2, 29, 12, 35, 59, 0)
    /\ datetime(I2c(seen.before, 0)).value # seen.value
    /\ datetime(I2c(regs, 0)).value # seen.value

\* C21: set_datetime stores the year mod 100 and datetime() returns 2000 plus the
\* decoded year register: for a valid date-time dt of a year Y >= 0 outside
\* 2000..2099, set_datetime(dt) followed by datetime() succeeds and returns the
\* year 2000 + (Y mod 100) with the month, day and time of dt.
C21_CenturyFold ==
    (/\ last.op = "set_datetime" /\ last.tag = "Ok"
     /\ last.args.data.year >= 0 /\ last.args.data.year \notin 2000..2099) =>
        LET dt == last.args.data
        IN /\ regs[CompatibleYEAR] = Bcd(dt.year % 100)
           /\ (seen.op = "datetime" /\ seen.fail_on = 0) =>
                  /\ seen.tag = "Ok"
                  /\ seen.value = DateTime(2000 + (dt.year % 100), dt.month, dt.day,
                                           dt.hour, dt.minute, dt.second, 0)

\* The leap day of 1996 was set and read back as the leap day of 2096.
C21_Witness ==
    /\ last.op = "set_datetime" /\ last.tag = "Ok"
    /\ last.args.data = DateTime(1996, 2, 29, 23, 59, 59, 0)
    /\ seen.op = "datetime" /\ seen.tag = "Ok"
    /\ seen.value = DateTime(2096, 2, 29, 23, 59, 59, 0)

\* The day of the week of a date, counted in days from 1 March of the year 0
\* (1 January 2000 was a Saturday).
CalendarWeekday(dt) ==
    LET y == IF dt.month <= 2 THEN dt.year - 1 ELSE dt.year
        m == IF dt.month <= 2 THEN dt.month + 12 ELSE dt.month
        n == 365 * y + y \div 4 - y \div 100 + y \div 400
                 + (153 * (m - 3) + 2) \div 5 + dt.day
    IN WeekdayOrder[((n + 2) % 7) + 1]

\* C27: set_datetime(dt) writes to the weekday register the one-hot code of the
\* weekday of dt's own date, so week() then returns the calendar weekday of dt; a
\* later set_week(w) makes the weekday register hold w whatever the stored date
\* is, and neither it nor datetime() nor week() reports the disagreement.
C27_WeekdayFromDate ==
    /\ (last.op = "set_datetime" /\ last.tag = "Ok") =>
           LET w == CalendarWeekday(last.args.data)
           IN /\ \E i \in 0..6 : WeekdayOrder[i + 1] = w /\ regs[CompatibleWEEK] = 2 ^ i
              /\ (seen.op = "week" /\ seen.fail_on = 0) =>
                     (seen.tag = "Ok" /\ seen.value = w)
    /\ (last.op = "set_week" /\ "after" \in DOMAIN last.args) =>
           LET dt == last.args.after
           IN /\ last.tag = "Ok"
              /\ regs[CompatibleWEEK] = to_week(last.args.data)
              /\ OthersUnchanged({CompatibleWEEK})
              /\ (seen.op = "week" /\ seen.fail_on = 0) =>
                     (seen.tag = "Ok" /\ seen.value = last.args.data)
              /\ (seen.op = "datetime" /\ seen.fail_on = 0) =>
                     /\ seen.tag = "Ok"
                     /\ seen.value = DateTime(2000 + (dt.year % 100), dt.month, dt.day,
                                              dt.hour, dt.minute, dt.second, 0)

\* 15 June 2024, a Saturday, was set, then Monday: datetime() still returns the
\* date while the weekday register holds Monday.
C27_Witness ==
    /\ last.op = "set_week" /\ last.tag = "Ok"
    /\ "after" \in DOMAIN last.args
    /\ last.args.after = DateTime(2024, 6, 15, 12, 0, 0, 0)
    /\ last.args.data = "Mon"
    /\ prev[CompatibleWEEK] = 64
    /\ regs[CompatibleWEEK] = 2
    /\ seen.op = "datetime" /\ seen.tag = "Ok"
    /\ seen.value = DateTime(2024, 6, 15, 12, 0, 0, 0)

\* The number of transactions of an operation when none fails.
Budget ==
    [week |-> 1, set_week |-> 1, set_bit |-> 2, set_fsel |-> 2, set_tsel |-> 2,
     set_csel |-> 2, set_bksmp |-> 2, set_source_clock |-> 2, timer_counter |-> 2,
     set_timer_counter |-> 2, datetime |-> 6, set_datetime |-> 7, init |-> 22]

\* A call issued as many transactions as its operation has, or stopped at the one
\* that failed.
WithinBudget(c) ==
    c.op \in DOMAIN Budget =>
        /\ Len(c.log) <= Budget[c.op]
        /\ c.fail_on \notin 1..Budget[c.op] =>
               /\ Len(c.log) = Budget[c.op]
               /\ c.tag \in {"Ok", "Panic"}
        /\ c.fail_on \in 1..Budget[c.op] =>
               /\ Len(c.log) = c.fail_on
               /\ c.tag = "Err"
        /\ \A k \in 1..Len(c.log) : c.log[k].ok <=> k # c.fail_on

\* C22: every operation ends after a fixed number of transactions, with no
\* caching and no retry: 1 for a whole-register getter or setter, 2 (a read then
\* a write) for set_bit and the two-bit field setters, 2 for timer_counter and
\* set_timer_counter, 6 for datetime, 7 for set_datetime, 22 for init; after a
\* failed transaction the operation issues no further transaction.
C22_TransactionBudget ==
    /\ WithinBudget(last)
    /\ WithinBudget(seen)
    /\ (last.op \in {"set_bit", "set_fsel", "set_tsel", "set_csel", "set_bksmp",
                     "set_source_clock"} /\ Len(last.log) = 2) =>
           (last.log[1].kind = "write_read" /\ last.log[2].kind = "write")

\* init stopped at its failing 13th transaction, and datetime() then made its
\* six reads.
C22_Witness ==
    /\ last.op = "init" /\ last.fail_on = 13 /\ last.tag = "Err"
    /\ Len(last.log) = 13
    /\ seen.op = "datetime" /\ seen.fail_on = 0
    /\ Len(seen.log) = 6

\* The register, value getter and enable getter of each alarm setter.
AlarmOf(op) ==
    CASE op = "set_min_alarm" ->
             [register |-> CompatibleMinAlarm, value |-> min_alarm(I2c(regs, 0)),
              enabled |-> min_alarm_enabled(I2c(regs, 0)),
              value_op |-> "min_alarm", enabled_op |-> "min_alarm_enabled", valid |-> 0..59]
      [] op = "set_hour_alarm" ->
             [register |-> CompatibleHourAlarm, value |-> hour_alarm(I2c(regs, 0)),
              enabled |-> hour_alarm_enabled(I2c(regs, 0)),
              value_op |-> "hour_alarm", enabled_op |-> "hour_alarm_enabled", valid |-> 0..23]
      [] op = "set_day_alarm" ->
             [register |-> CompatibleWeekDayAlarm, value |-> day_alarm(I2c(regs, 0)),
              enabled |-> day_alarm_enabled(I2c(regs, 0)),
              value_op |-> "day_alarm", enabled_op |-> "day_alarm_enabled", valid |-> 1..31]

AlarmSetters == {"set_min_alarm", "set_hour_alarm", "set_day_alarm"}

\* C23: for every minute m in 0..59, hour h in 0..23, day d in 1..31 and every
\* boolean e, set_min_alarm(m, e) followed by min_alarm() and
\* min_alarm_enabled() returns m and e, and likewise for the hour alarm and
\* the day alarm.
C23_AlarmRoundTrip ==
    (/\ last.op \in AlarmSetters /\ last.tag = "Ok"
     /\ last.args.data \in AlarmOf(last.op).valid) =>
        LET a == AlarmOf(last.op)
        IN /\ a.value.tag = "Ok" /\ a.value.value = last.args.data
           /\ a.enabled.tag = "Ok" /\ a.enabled.value = last.args.enabled
           /\ seen.op = a.value_op => (seen.tag = "Ok" /\ seen.value = last.args.data)
           /\ seen.op = a.enabled_op => (seen.tag = "Ok" /\ seen.value = last.args.enabled)

\* The hour alarm was set to 23, enabled, and the hour read back.
C23_Witness ==
    /\ last.op = "set_hour_alarm" /\ last.tag = "Ok"
    /\ last.args.data = 23 /\ last.args.enabled
    /\ seen.op = "hour_alarm" /\ seen.value = 23
    /\ regs[CompatibleHourAlarm] = 163

\* C24: for every data byte and every boolean enabled, after set_min_alarm,
\* set_hour_alarm or set_day_alarm succeeds the matching *_alarm_enabled()
\* getter returns exactly enabled: bit 7 of the written byte is determined by
\* enabled alone and never by data.
C24_EnabledFromFlagAlone ==
    (last.op \in AlarmSetters /\ last.tag = "Ok") =>
        LET a == AlarmOf(last.op)
        IN /\ Bit(regs[a.register], 7) = BoolU8(last.args.enabled)
           /\ a.enabled.tag = "Ok" /\ a.enabled.value = last.args.enabled
           /\ seen.op = a.enabled_op => seen.value = last.args.enabled

\* The weekdays whose bits among bits 0..6 of b are set, Sunday first.
WeekdaysOfBits(b) ==
    LET IsSet(i) == Bit(b, i - 1) = 1
        set_bits == SelectSeq(<<1, 2, 3, 4, 5, 6, 7>>, IsSet)
    IN [k \in 1..Len(set_bits) |-> WeekdayOrder[set_bits[k]]]

\* The distinct weekdays of the list S, Sunday first.
DistinctWeekdays(S) ==
    LET InS(w) == \E k \in 1..Len(S) : S[k] = w
    IN SelectSeq(WeekdayOrder, InS)

\* C25: for every list S of at most seven weekdays, duplicates allowed,
\* set_week_alarm(S) followed by week_alarm() returns exactly the distinct
\* weekdays of S in Sunday-to-Saturday order; for every byte in the week/day
\* alarm register week_alarm() returns the weekdays whose bits 0..6 are set,
\* ignores bit 7, returns at most seven entries and never reaches the fatal
\* arm of the weekday decoder.
C25_WeekAlarm ==
    /\ (last.op = "set_week_alarm" /\ last.tag = "Ok") =>
           /\ week_alarm(I2c(regs, 0)).tag = "Ok"
           /\ week_alarm(I2c(regs, 0)).value = DistinctWeekdays(last.args.data)
           /\ seen.op = "week_alarm" => seen.value = DistinctWeekdays(last.args.data)
    /\ seen.op = "week_alarm" =>
           LET b == seen.before[CompatibleWeekDayAlarm]
           IN /\ seen.tag = "Ok"
              /\ seen.value = WeekdaysOfBits(b)
              /\ seen.value = WeekdaysOfBits(b % 128)
              /\ Len(seen.value) <= 7

\* A list of seven with repetitions was set over a register with bit 7 set and
\* read back as four weekdays.
C25_Witness ==
    /\ last.op = "set_week_alarm" /\ last.tag = "Ok"
    /\ last.args.data = <<"Sat", "Sun", "Sat", "Mon", "Sun", "Tue", "Sat">>
    /\ prev[CompatibleWeekDayAlarm] >= 128
    /\ seen.op = "week_alarm" /\ seen.value = <<"Sun", "Mon", "Tue", "Sat">>

\* C29: set_week_alarm overwrites the whole week/day alarm register: after
\* set_week_alarm(S) succeeds, bit 7 of register 0x0A is 0 for every S and
\* every prior content, week_alarm_enabled() and day_alarm_enabled() both
\* return false, and the day-alarm value stored there before is replaced.
C29_WeekAlarmOverwrites ==
    (last.op = "set_week_alarm" /\ last.tag = "Ok") =>
        /\ Bit(regs[CompatibleWeekDayAlarm], 7) = 0
        /\ regs[CompatibleWeekDayAlarm] = week_alarm_value(last.args.data, 0)
        /\ week_alarm_enabled(I2c(regs, 0)).value = FALSE
        /\ day_alarm_enabled(I2c(regs, 0)).value = FALSE
        /\ day_alarm(I2c(regs, 0)).value = from_bcd(week_alarm_value(last.args.data, 0))
        /\ seen.op \in {"week_alarm_enabled", "day_alarm_enabled"} =>
               (seen.tag = "Ok" /\ seen.value = FALSE)

\* Monday and Friday were set over an enabled day alarm of the 15th; the day
\* alarm now reads as disabled and as day 22.
C29_Witness ==
    /\ last.op = "set_week_alarm" /\ last.tag = "Ok"
    /\ last.args.data = <<"Mon", "Fri">>
    /\ prev[CompatibleWeekDayAlarm] = 149
    /\ regs[CompatibleWeekDayAlarm] = 34
    /\ seen.op = "day_alarm_enabled" /\ seen.value = FALSE

\* The register files f and g differ at most in the bits of register a that
\* are set in mask.
OnlyBitsChanged(f, g, a, mask) ==
    /\ \A x \in RegisterTable \ {a} : f[x] = g[x]
    /\ \A i \in 0..7 : Bit(mask, i) = 0 => Bit(f[a], i) = Bit(g[a], i)

\* C26: for every data byte and every prior register byte, set_csel(data)
\* changes only bits 7..6 of the control register and csel() then returns
\* data mod 4; set_bksmp(data) changes only bits 1..0 of the backup-function
\* register and bksmp() then returns data mod 4.
C26_TwoBitCodes ==
    /\ last.op = "none" =>
           \A data \in Byte :
               LET c == set_csel(I2c(regs, 0), data)
                   b == set_bksmp(I2c(regs, 0), data)
               IN /\ c.tag = "Ok" /\ b.tag = "Ok"
                  /\ OnlyBitsChanged(regs, c.i2c.regs, CompatibleControlRegister, 192)
                  /\ csel(I2c(c.i2c.regs, 0)).value = data % 4
                  /\ OnlyBitsChanged(regs, b.i2c.regs, ExtendedBackupFunction, 3)
                  /\ bksmp(I2c(b.i2c.regs, 0)).value = data % 4
    /\ (last.op = "set_csel" /\ last.tag = "Ok") =>
           /\ OnlyBitsChanged(prev, regs, CompatibleControlRegister, 192)
           /\ seen.op = "csel" => (seen.tag = "Ok" /\ seen.value = last.args.data % 4)
    /\ (last.op = "set_bksmp" /\ last.tag = "Ok") =>
           /\ OnlyBitsChanged(prev, regs, ExtendedBackupFunction, 3)
           /\ seen.op = "bksmp" => (seen.tag = "Ok" /\ seen.value = last.args.data % 4)

\* set_csel(7) turned a control register of 0x7F into 0xFF and csel() read 3.
C26_Witness ==
    /\ last.op = "set_csel" /\ last.tag = "Ok" /\ last.args.data = 7
    /\ prev[CompatibleControlRegister] = 127
    /\ regs[CompatibleControlRegister] = 255
    /\ seen.op = "csel" /\ seen.value = 3

\* The number of days of month m of year y in the Gregorian calendar.
MonthLength(y, m) ==
    CASE m \in {1, 3, 5, 7, 8, 10, 12} -> 31
      [] m \in {4, 6, 9, 11} -> 30
      [] m = 2 -> IF (y % 4 = 0 /\ y % 100 # 0) \/ y % 400 = 0 THEN 29 ELSE 28

\* C28: datetime() has no fallback for the date: when all six reads succeed
\* and the decoded (2000 + year, month, day) is not a calendar date (month 0 or
\* above 12, day 0, or a day beyond the length of the month) datetime() ends in
\* a panic instead of returning a value or an error; when the decoded date is
\* a calendar date it always returns a value.
C28_NoDateFallback ==
    (seen.op = "datetime" /\ seen.fail_on = 0) =>
        LET y == 2000 + Decoded(seen.before, CompatibleYEAR)
            m == Decoded(seen.before, CompatibleMONTH)
            d == Decoded(seen.before, CompatibleDAY)
            invalid == m = 0 \/ m > 12 \/ d = 0 \/ d > MonthLength(y, m)
        IN IF invalid THEN seen.tag = "Panic"
           ELSE /\ seen.tag = "Ok"
                /\ seen.value.year = y /\ seen.value.month = m /\ seen.value.day = d

\* The registers held 31 February 2024 and datetime() panicked.
C28_Witness ==
    /\ seen.op = "datetime" /\ seen.fail_on = 0
    /\ Decoded(seen.before, CompatibleYEAR) = 24
    /\ Decoded(seen.before, CompatibleMONTH) = 2
    /\ Decoded(seen.before, CompatibleDAY) = 31
    /\ seen.tag = "Panic"

\* C30: in every reachable state a getter (datetime, week_alarm, timer_counter
\* and every single-bit or enum getter included) issues only write-then-read
\* transactions to bus address 0x32 and leaves every register byte unchanged,
\* whether it succeeds or fails.
C30_GettersOnlyRead ==
    seen.op # "none" =>
        /\ Len(seen.log) >= 1
        /\ \A k \in 1..Len(seen.log) :
               seen.log[k].kind = "write_read" /\ seen.log[k].address = 50
        /\ regs = seen.before

\* datetime() failed at its third read and left the registers as they were.
C30_Witness ==
    /\ seen.op = "datetime" /\ seen.fail_on = 3 /\ seen.tag = "Err"
    /\ Len(seen.log) = 3
    /\ \A k \in 1..3 : seen.log[k].kind = "write_read" /\ seen.log[k].address = 50
    /\ regs = seen.before

====
